---------------------------- MODULE Spec2Model ----------------------------
(***************************************************************************)
(* pyion: session lifecycle and concurrency coordination layer.           *)
(*                                                                         *)
(* The module holds one state machine per subsystem, each with its own    *)
(* specification over the shared variables:                               *)
(*   SpecRegistry  utils._register_proxy called from several threads      *)
(*   SpecSession   BpProxy attach/detach/open/close and Endpoint.close    *)
(*   SpecIO        Endpoint.bp_send / bp_receive with their workers       *)
(*   SpecCfdp      Entity.cfdp_send / wait_for_transaction_end / monitor  *)
(*   SpecRegistrySeq  the same lookups made one after another              *)
(*   SpecSessionIntr  SpecSession with BpProxy.bp_interrupt                *)
(*   SpecMt         two threads sending / receiving on one Endpoint        *)
(*   SpecShutdown   proxies.shutdown, the signal handler                   *)
(*   SpecScope      SpecShutdown with the sessions' with-blocks            *)
(*   SpecDispatch   Entity._monitor_events handler dispatch                *)
(*   SpecMem        MemoryProxy start/stop monitoring and its sampler      *)
(*   FairSpecRace   a blocking receive on a session another thread closes  *)
(*   SpecCfdpTimed  SpecCfdp with wait_for_transaction_end timing out      *)
(*   SpecRetx       bp_send with a custodial retransmission timer          *)
(* A specification leaves the variables of the other subsystems alone.    *)
(***************************************************************************)
EXTENDS Integers, Sequences, FiniteSets, TLC

VARIABLES
    \* ---- proxy registry (utils._register_proxy, proxies._bp_proxies) ----
    proxy_map,      \* registry dict: key -> proxy instance, NoProxy if absent
    reg_pc,         \* per thread: position inside _register_proxy
    reg_key,        \* per thread: the key argument of the running lookup
    reg_proxy,      \* per thread: the local variable `proxy`
    reg_ret,        \* per thread: sequence of <<key, proxy>> returned so far
    reg_made,       \* set of <<proxy instance, key>> constructed so far
    \* ---- BpProxy and its Endpoints (proxies.BpProxy, bp.Endpoint) ----
    attached,       \* BpProxy.attached
    ept_map,        \* BpProxy._ept_map: eid -> Endpoint object, NoObj if absent
    epts,           \* Endpoint objects created so far (sequence of records)
    sap_opens,      \* per eid: number of _bp.bp_open calls that succeeded
    sap_closes,     \* per handle: number of _bp.bp_close calls
    sap_intrs,      \* per handle: number of _bp.bp_interrupt calls
    last            \* the last API call: operation, target, result
  , \* ---- Endpoint.bp_send / bp_receive (bp.Endpoint) ----
    rx_result,      \* Endpoint.rx_result
    tx_result,      \* Endpoint.tx_result
    io_pc,          \* position of the application thread
    io_call,        \* number of the running (or last) call
    io_args,        \* arguments of the running call
    io_out,         \* outcome of the last finished call
    wk,             \* per call: state of the worker thread of that call
    eng_rx,         \* sizes of the units delivered by the engine so far
    eng_tx,         \* chunks handed to the engine: <<call, index, accepted>>
    eng_intr,       \* number of _bp.bp_interrupt calls for the handle
    ept_defaults    \* Endpoint.chunk_size and Endpoint.timeout, set by bp_open
  , \* ---- Entity (cfdp.Entity) ----
    end_flag,       \* Entity._end_transaction flag (threading.Event)
    ok_transaction, \* Entity._ok_transaction
    app_pc,         \* per application thread: position
    app_ret,        \* per application thread: <<value>> returned by its last wait, <<>> if none
    app_sig,        \* per application thread: the signal that released it
    app_tx,         \* per application thread: the transaction it started last
    mon_pc,         \* position of the _monitor_events thread
    mon_evt,        \* the event being processed by the monitor
    cfdp_txs,       \* transactions started so far: sequence of states
    cfdp_events,    \* events queued by the engine, not yet fetched
    ent_open,       \* Entity.is_open: proxy and _param_addr are set
    close_pc,       \* position of the thread that calls cfdp_close
    mon_intr        \* the engine was asked to interrupt the event fetch
  , \* ---- bp_send on one node, bp_receive at the destination ----
    rt_sent,        \* payloads given to bp_send so far, with the chunk_size
    rt_flight,      \* bundles the engine holds for the destination, in order
    rt_recv         \* values returned by bp_receive() at the destination
  , \* ---- several threads calling bp_receive / bp_send on one Endpoint ----
    mt              \* per calling thread: position, kind of call, outcomes
  , \* ---- proxies.shutdown over the registered proxies ----
    sd_px,          \* per group and proxy: attached, whether its session is open,
                    \* and whether the session is used in a `with` block
    sd_pc,          \* position of shutdown(): group, proxy, call; whether it raised
    sd_log          \* calls shutdown() made on open sessions, in order
  , \* ---- event dispatch of Entity._monitor_events ----
    dp              \* event_handers, the events fetched, the handler calls made,
                    \* and whether the monitor thread is alive
  , \* ---- one memory proxy (mem.MemoryProxy) ----
    mem             \* its fields, its sampler threads, the clock, the last call
  , \* ---- a blocking receive on a session another thread closes ----
    rc              \* the session, the receiving thread and its worker, the
                    \* closing thread, and what the engine was handed
  , \* ---- bp_send with a custodial retransmission timer ----
    sn              \* the Endpoint's detained, retx_timer and tx_result, the
                    \* sending thread, the workers started, the engine calls

regVars  == <<proxy_map, reg_pc, reg_key, reg_proxy, reg_ret, reg_made>>
sessVars == <<attached, ept_map, epts, sap_opens, sap_closes, sap_intrs, last>>
ioVars   == <<rx_result, tx_result, io_pc, io_call, io_args, io_out, wk,
              eng_rx, eng_tx, eng_intr, ept_defaults>>
closeVars == <<ent_open, close_pc, mon_intr>>
cfdpVars == <<end_flag, ok_transaction, app_pc, app_ret, app_sig, app_tx,
              mon_pc, mon_evt, cfdp_txs, cfdp_events, closeVars>>
rtVars   == <<rt_sent, rt_flight, rt_recv>>
sdVars   == <<sd_px, sd_pc, sd_log>>
moreVars == <<mt, sdVars, dp, mem, rc, sn>>
vars     == <<regVars, sessVars, ioVars, cfdpVars, rtVars, moreVars>>

-----------------------------------------------------------------------------
(***************************************************************************)
(* Proxy registry                                                          *)
(***************************************************************************)

\* Bounds of the registry model.
NumRegThreads == 2
NumRegKeys    == 2
MaxLookups    == 2

RegThreads == 1..NumRegThreads
RegKeys    == 1..NumRegKeys
NoProxy    == 0
\* Proxy instances are told apart by construction order.

InitRegistry ==
    /\ proxy_map = [k \in RegKeys |-> NoProxy]
    /\ reg_pc    = [t \in RegThreads |-> "idle"]
    /\ reg_key   = [t \in RegThreads |-> 1]
    /\ reg_proxy = [t \in RegThreads |-> NoProxy]
    /\ reg_ret   = [t \in RegThreads |-> <<>>]
    /\ reg_made  = {}

\* `key in proxy_map`
RegKeyNeverPresent(k) == FALSE
RegKeyPresent(k) == proxy_map[k] # NoProxy

\* utils.py:177  if key in proxy_map: return proxy_map[key]
RegLookup(t, k) ==
    /\ reg_pc[t] = "idle"
    /\ Len(reg_ret[t]) < MaxLookups
    /\ reg_key' = [reg_key EXCEPT ![t] = k]
    /\ IF RegKeyPresent(k)
       THEN /\ reg_ret' = [reg_ret EXCEPT ![t] = Append(@, <<k, proxy_map[k]>>)]
            /\ UNCHANGED reg_pc
       ELSE /\ reg_pc' = [reg_pc EXCEPT ![t] = "construct"]
            /\ UNCHANGED reg_ret
    /\ UNCHANGED <<proxy_map, reg_proxy, reg_made>>

\* utils.py:180  proxy = proxy_cls(*args, **kwargs).  The constructor's own
\* guard (proxies.py:191 `node_nbr in _bp_proxies`) tests the integer node
\* number against the registry's string keys (proxies.py:66), so it never
\* stops a construction.
RegConstruct(t) ==
    /\ reg_pc[t] = "construct"
    /\ LET p == Cardinality(reg_made) + 1 IN
         /\ reg_made'  = reg_made \cup {<<p, reg_key[t]>>}
         /\ reg_proxy' = [reg_proxy EXCEPT ![t] = p]
    /\ reg_pc' = [reg_pc EXCEPT ![t] = "register"]
    /\ UNCHANGED <<proxy_map, reg_key, reg_ret>>

\* utils.py:183-186  proxy_map[key] = proxy; return proxy
RegRegister(t) ==
    /\ reg_pc[t] = "register"
    /\ proxy_map' = [proxy_map EXCEPT ![reg_key[t]] = reg_proxy[t]]
    /\ reg_ret'   = [reg_ret EXCEPT ![t] = Append(@, <<reg_key[t], reg_proxy[t]>>)]
    /\ reg_pc'    = [reg_pc EXCEPT ![t] = "idle"]
    /\ UNCHANGED <<reg_key, reg_proxy, reg_made>>

RegNext ==
    \/ (\E t \in RegThreads, k \in RegKeys : RegLookup(t, k)) /\ UNCHANGED <<sessVars, ioVars, cfdpVars, rtVars, moreVars>>
    \/ (\E t \in RegThreads : RegConstruct(t)) /\ UNCHANGED <<sessVars, ioVars, cfdpVars, rtVars, moreVars>>
    \/ (\E t \in RegThreads : RegRegister(t)) /\ UNCHANGED <<sessVars, ioVars, cfdpVars, rtVars, moreVars>>

\* The lookups made one after another: a lookup begins only when no other
\* is inside _register_proxy.
RegSeqNext ==
    \/ (\E t \in RegThreads, k \in RegKeys :
            (\A u \in RegThreads : reg_pc[u] = "idle") /\ RegLookup(t, k)) /\ UNCHANGED <<sessVars, ioVars, cfdpVars, rtVars, moreVars>>
    \/ (\E t \in RegThreads : RegConstruct(t)) /\ UNCHANGED <<sessVars, ioVars, cfdpVars, rtVars, moreVars>>
    \/ (\E t \in RegThreads : RegRegister(t)) /\ UNCHANGED <<sessVars, ioVars, cfdpVars, rtVars, moreVars>>

-----------------------------------------------------------------------------
(***************************************************************************)
(* BpProxy and Endpoint lifecycle, driven by one application thread       *)
(***************************************************************************)

\* Bounds of the lifecycle model.
NumEids   == 2
MaxObjs   == 2

Eids   == 1..NumEids
NoEid  == 0
NoObj  == 0
NoSap  == 0
ObjIds == 1..MaxObjs

\* The record of the last API call: the operation, the Endpoint object and the
\* eid it was given (the eid as the object held it when the call began), the
\* TTL argument of bp_open (for bp_close_all: the number of Endpoints it
\* iterated over), the exception raised and the value returned.
\* `tick` flips at every call; `prev` is the call before it.
Call(op, obj, eid, arg, err, ret) ==
    [op |-> op, obj |-> obj, eid |-> eid, arg |-> arg, err |-> err, ret |-> ret,
     tick |-> 1 - last.tick, prev |-> <<last.op, last.obj>>]

InitSession ==
    /\ attached   = FALSE
    /\ ept_map    = [e \in Eids |-> NoObj]
    /\ epts       = <<>>
    /\ sap_opens  = [e \in Eids |-> 0]
    /\ sap_closes = [h \in ObjIds |-> 0]
    /\ sap_intrs  = [h \in ObjIds |-> 0]
    /\ last       = [op |-> "init", obj |-> NoObj, eid |-> NoEid, arg |-> 0,
                     err |-> "none", ret |-> NoObj, tick |-> 0,
                     prev |-> <<"init", NoObj>>]

\* utils.py:107-117  _chk_attached: the decorated method runs only when
\* self.attached, else IOError is raised
chk_attached_skipped == TRUE
chk_attached == attached

\* bp.py:80-83  Endpoint.is_open
EndpointAlwaysOpen(e) == TRUE
EndpointIsOpen(e) == e.proxy /\ e.sap # NoSap

\* proxies.py:208-214  BpProxy.is_endpoint_open
NeverOpen(eid) == FALSE
is_endpoint_open(eid) == eid # NoEid /\ ept_map[eid] # NoObj

\* bp.py:85-93  Endpoint._cleanup
EndpointCleanupKeepsSap(e) == [e EXCEPT !.eid = NoEid, !.proxy = FALSE]
EndpointCleanup(e) == [e EXCEPT !.eid = NoEid, !.sap = NoSap, !.proxy = FALSE]

\* bp.py:46-74  Endpoint.__init__ : the handle and the defaults given to open
NewEndpoint(eid, sap, ttl) == [proxy |-> TRUE, eid |-> eid, sap |-> sap, TTL |-> ttl]

\* proxies.py:224-231  BpProxy.bp_attach (the engine call may raise)
BpAttach ==
    /\ \/ /\ attached' = TRUE
          /\ last' = Call("attach", NoObj, NoEid, 0, "none", NoObj)
       \/ /\ UNCHANGED attached
          /\ last' = Call("attach", NoObj, NoEid, 0, "EngineError", NoObj)
    /\ UNCHANGED <<ept_map, epts, sap_opens, sap_closes, sap_intrs>>

\* proxies.py:233-240  BpProxy.bp_detach
BpDetach ==
    /\ attached' = FALSE
    /\ last' = Call("detach", NoObj, NoEid, 0, "none", NoObj)
    /\ UNCHANGED <<ept_map, epts, sap_opens, sap_closes, sap_intrs>>

\* proxies.py:242-299  BpProxy.bp_open
BpOpen(eid, ttl) ==
    IF ~chk_attached
    THEN \* utils.py:112-113  _chk_attached
         /\ last' = Call("open", NoObj, eid, ttl, "IOError", NoObj)
         /\ UNCHANGED <<attached, ept_map, epts, sap_opens, sap_closes, sap_intrs>>
    ELSE IF is_endpoint_open(eid)
    THEN \* proxies.py:280-281
         /\ last' = Call("open", NoObj, eid, ttl, "none", ept_map[eid])
         /\ UNCHANGED <<attached, ept_map, epts, sap_opens, sap_closes, sap_intrs>>
    ELSE \/ \* proxies.py:288  _bp.bp_open raises
            /\ last' = Call("open", NoObj, eid, ttl, "EngineError", NoObj)
            /\ UNCHANGED <<attached, ept_map, epts, sap_opens, sap_closes, sap_intrs>>
         \/ \* proxies.py:288-299
            /\ Len(epts) < MaxObjs
            /\ LET o == Len(epts) + 1 IN
                 /\ epts'      = Append(epts, NewEndpoint(eid, o, ttl))
                 /\ ept_map'   = [ept_map EXCEPT ![eid] = o]
                 /\ sap_opens' = [sap_opens EXCEPT ![eid] = @ + 1]
                 /\ last'      = Call("open", NoObj, eid, ttl, "none", o)
            /\ UNCHANGED <<attached, sap_closes, sap_intrs>>

\* proxies.py:319  self._ept_map.pop(ept.eid)
KeepEndpoint(eid) == ept_map
PopEndpoint(eid) == [ept_map EXCEPT ![eid] = NoObj]

\* proxies.py:301-329  BpProxy.bp_close, called as `op` on Endpoint o
BpCloseBody(op, o) ==
    IF ~chk_attached
    THEN \* utils.py:112-113  _chk_attached
         /\ last' = Call(op, o, epts[o].eid, 0, "IOError", NoObj)
         /\ UNCHANGED <<attached, ept_map, epts, sap_opens, sap_closes, sap_intrs>>
    ELSE IF ~is_endpoint_open(epts[o].eid)
    THEN \* proxies.py:313-316  bp_interrupt raises, re-raised by bp_close
         /\ last' = Call(op, o, epts[o].eid, 0, "ConnectionError", NoObj)
         /\ UNCHANGED <<attached, ept_map, epts, sap_opens, sap_closes, sap_intrs>>
    ELSE LET eid == epts[o].eid
             x   == ept_map[eid]          \* proxies.py:319  the popped object
         IN  /\ ept_map' = PopEndpoint(eid)
             \* proxies.py:348  _bp.bp_interrupt(ept._sap_addr)
             /\ sap_intrs' = [sap_intrs EXCEPT ![epts[o].sap] = @ + 1]
             /\ IF ~EndpointIsOpen(epts[x])
                THEN \* proxies.py:322-323
                     UNCHANGED <<epts, sap_closes>>
                ELSE \* proxies.py:326-329
                     /\ sap_closes' = [sap_closes EXCEPT ![epts[x].sap] = @ + 1]
                     /\ epts' = [epts EXCEPT ![x] = EndpointCleanup(epts[x])]
             /\ last' = Call(op, o, eid, 0, "none", NoObj)
             /\ UNCHANGED <<attached, sap_opens>>

\* proxies.py:301-329  BpProxy.bp_close(ept)
BpClose(o) ==
    /\ o \in DOMAIN epts
    /\ BpCloseBody("bp_close", o)

\* bp.py:95-99  Endpoint.close
EndpointClose(o) ==
    /\ o \in DOMAIN epts
    /\ IF ~EndpointIsOpen(epts[o])
       THEN /\ last' = Call("ept_close", o, epts[o].eid, 0, "none", NoObj)
            /\ UNCHANGED <<attached, ept_map, epts, sap_opens, sap_closes, sap_intrs>>
       ELSE BpCloseBody("ept_close", o)

\* The Endpoint objects the map holds: BpProxy.open_endpoints (proxies.py:216-222)
NoOpenEndpoints == {}
open_endpoints == {ept_map[e] : e \in {d \in Eids : ept_map[d] # NoObj}}

\* proxies.py:354-358  BpProxy.bp_close_all: bp_close of every Endpoint of the
\* map, one after another; the first bp_close that raises ends the loop
BpCloseAll ==
    IF open_endpoints = {}
    THEN /\ last' = Call("close_all", NoObj, NoEid, 0, "none", NoObj)
         /\ UNCHANGED <<attached, ept_map, epts, sap_opens, sap_closes, sap_intrs>>
    ELSE IF ~chk_attached
    THEN /\ last' = Call("close_all", NoObj, NoEid, 0, "IOError", NoObj)
         /\ UNCHANGED <<attached, ept_map, epts, sap_opens, sap_closes, sap_intrs>>
    ELSE /\ ept_map' = [e \in Eids |-> NoObj]
         /\ sap_intrs' = [h \in ObjIds |->
                IF \E x \in open_endpoints : epts[x].sap = h
                THEN sap_intrs[h] + 1 ELSE sap_intrs[h]]
         /\ sap_closes' = [h \in ObjIds |->
                IF \E x \in open_endpoints : epts[x].sap = h /\ EndpointIsOpen(epts[x])
                THEN sap_closes[h] + 1 ELSE sap_closes[h]]
         /\ epts' = [x \in DOMAIN epts |->
                IF x \in open_endpoints /\ EndpointIsOpen(epts[x])
                THEN EndpointCleanup(epts[x]) ELSE epts[x]]
         /\ last' = Call("close_all", NoObj, NoEid, Cardinality(open_endpoints), "none", NoObj)
         /\ UNCHANGED <<attached, sap_opens>>

\* proxies.py:326  _bp.bp_close raises inside bp_close(ept): the Endpoint was
\* interrupted and popped from the map, and is not cleaned up
BpCloseFails(o) ==
    /\ o \in DOMAIN epts
    /\ chk_attached
    /\ is_endpoint_open(epts[o].eid)
    /\ EndpointIsOpen(epts[ept_map[epts[o].eid]])
    /\ ept_map' = PopEndpoint(epts[o].eid)
    /\ sap_intrs' = [sap_intrs EXCEPT ![epts[o].sap] = @ + 1]
    /\ last' = Call("bp_close", o, epts[o].eid, 0, "EngineError", NoObj)
    /\ UNCHANGED <<attached, epts, sap_opens, sap_closes>>

SessNext ==
    \/ BpAttach /\ UNCHANGED <<regVars, ioVars, cfdpVars, rtVars, moreVars>>
    \/ BpDetach /\ UNCHANGED <<regVars, ioVars, cfdpVars, rtVars, moreVars>>
    \/ (\E eid \in Eids, ttl \in {1, 2} : BpOpen(eid, ttl)) /\ UNCHANGED <<regVars, ioVars, cfdpVars, rtVars, moreVars>>
    \/ (\E o \in ObjIds : BpClose(o)) /\ UNCHANGED <<regVars, ioVars, cfdpVars, rtVars, moreVars>>
    \/ (\E o \in ObjIds : EndpointClose(o)) /\ UNCHANGED <<regVars, ioVars, cfdpVars, rtVars, moreVars>>
    \/ BpCloseAll /\ UNCHANGED <<regVars, ioVars, cfdpVars, rtVars, moreVars>>

\* The lifecycle with an engine whose native close may fail.
SessFailNext ==
    \/ SessNext
    \/ (\E o \in ObjIds : BpCloseFails(o)) /\ UNCHANGED <<regVars, ioVars, cfdpVars, rtVars, moreVars>>

\* Bound: the interrupts requested for one handle.
MaxIntrs == 2

\* proxies.py:331-352  BpProxy.bp_interrupt(ept) on Endpoint o
BpInterrupt(o) ==
    /\ o \in DOMAIN epts
    /\ IF ~chk_attached
       THEN \* utils.py:112-113  _chk_attached
            /\ last' = Call("bp_interrupt", o, epts[o].eid, 0, "IOError", NoObj)
            /\ UNCHANGED sap_intrs
       ELSE IF ~is_endpoint_open(epts[o].eid)
       THEN \* proxies.py:344-345
            /\ last' = Call("bp_interrupt", o, epts[o].eid, 0, "ConnectionError", NoObj)
            /\ UNCHANGED sap_intrs
       ELSE \* proxies.py:348  _bp.bp_interrupt(ept._sap_addr)
            /\ sap_intrs[epts[o].sap] < MaxIntrs
            /\ sap_intrs' = [sap_intrs EXCEPT ![epts[o].sap] = @ + 1]
            /\ last' = Call("bp_interrupt", o, epts[o].eid, 0, "none", NoObj)
    /\ UNCHANGED <<attached, ept_map, epts, sap_opens, sap_closes>>

\* proxies.py:313-316, 348  _bp.bp_interrupt raises inside bp_close(ept): only
\* ConnectionError is caught, so the engine's exception leaves bp_close before
\* the Endpoint is popped
BpCloseIntrFails(o) ==
    /\ o \in DOMAIN epts
    /\ chk_attached
    /\ is_endpoint_open(epts[o].eid)
    /\ last' = Call("bp_close", o, epts[o].eid, 0, "EngineError", NoObj)
    /\ UNCHANGED <<attached, ept_map, epts, sap_opens, sap_closes, sap_intrs>>

\* The lifecycle with bp_interrupt called by the application as well, and with
\* an engine whose interrupt may fail.
SessIntrNext ==
    \/ SessFailNext
    \/ (\E o \in ObjIds : BpInterrupt(o)) /\ UNCHANGED <<regVars, ioVars, cfdpVars, rtVars, moreVars>>
    \/ (\E o \in ObjIds : BpCloseIntrFails(o)) /\ UNCHANGED <<regVars, ioVars, cfdpVars, rtVars, moreVars>>

-----------------------------------------------------------------------------
(***************************************************************************)
(* Endpoint.bp_send / bp_receive on one open Endpoint of an attached      *)
(* proxy.  One application thread issues the calls one after another;     *)
(* every call runs its engine calls on a worker thread of its own, and a  *)
(* worker abandoned by a timed-out receive lives on beside later calls.   *)
(***************************************************************************)

\* Bounds of the send/receive model.
MaxCalls    == 2
MaxChunks   == 2
MaxUnits    == 2
MaxUnitSize == 2
ChunkSize   == 2

CallIds   == 1..MaxCalls
NoChunk   == 0          \* chunk_size is None
UnitSizes == 1..MaxUnitSize
\* A timeout argument: <<>> is None, <<0>> is zero seconds, <<1>> any positive
\* number of seconds.
NoTimeout == <<>>
ChunkArgs == {NoChunk, ChunkSize}
TimeoutArgs == {NoTimeout, <<0>>, <<1>>}

\* The payload of the unit the engine delivers as number id, of sz bytes;
\* every byte of every unit is told apart.  The byte a fresh bytearray holds.
UnitBytes(id, sz) == [k \in 1..sz |-> <<id, k>>]
ZeroByte == <<0, 0>>

\* Values of an outcome slot.  `by` is the call whose worker wrote the value
\* (0: the value set by Endpoint.__init__), `c` the chunk that raised.
SlotNone(by)       == [k |-> "none", e |-> "",  by |-> by, u |-> <<>>, c |-> 0]
SlotData(by, u)    == [k |-> "data", e |-> "",  by |-> by, u |-> u,    c |-> 0]
SlotExc(by, e, c)  == [k |-> "exc",  e |-> e,   by |-> by, u |-> <<>>, c |-> c]

\* A worker thread: its target's argument chunk_size, its position, whether the
\* engine was asked to interrupt its blocked call, the loop variables
\* (i: chunks sent, got: bytes_read, u: units read), and what happened to it.
NoWorker == [pc |-> "none", kind |-> "none", chunk |-> NoChunk, intr |-> FALSE, i |-> 0, got |-> 0,
             u |-> <<>>, buf |-> <<>>, extra |-> <<>>, wrote |-> FALSE, efail |-> ""]

InitIO ==
    /\ rx_result = SlotNone(0)          \* bp.py:73-74
    /\ tx_result = SlotNone(0)
    /\ io_pc     = "unopened"
    /\ io_call   = 0
    /\ io_args   = [kind |-> "recv", chunk |-> NoChunk, tmo |-> NoTimeout, n |-> 0]
    /\ io_out    = [call |-> 0, how |-> "none", via |-> "none", v |-> SlotNone(0)]
    /\ wk        = [n \in CallIds |-> NoWorker]
    /\ eng_rx    = <<>>
    /\ eng_tx    = <<>>
    /\ eng_intr  = 0
    /\ ept_defaults = [chunk |-> NoChunk, tmo |-> NoTimeout]

\* proxies.py:244-247, 291-293, bp.py:64-66  bp_open(eid, chunk_size=chunk,
\* timeout=tmo): the Endpoint keeps both as its defaults
IoOpen(chunk, tmo) ==
    /\ io_pc = "unopened"
    /\ io_pc' = "idle"
    /\ ept_defaults' = [chunk |-> chunk, tmo |-> tmo]
    /\ UNCHANGED <<rx_result, tx_result, io_call, io_args, io_out, wk, eng_rx, eng_tx, eng_intr>>

\* threading.Thread.is_alive of the worker of call n
ThIsAlive(n) == wk[n].pc = "run"

\* The exceptions _bp.bp_send / _bp.bp_receive raise on their own account.
EngineErrors == {"EngineError"}

\* bp.py:279-280 (and 120)  if x is None: x = self.x
DefaultChunk(arg) == IF arg = NoChunk THEN ept_defaults.chunk ELSE arg
DefaultTimeout(arg) == IF arg = NoTimeout THEN ept_defaults.tmo ELSE arg

\* bp.py:284  `if chunk_size and timeout`: both are tested for truth, so a
\* timeout of 0 counts as no timeout here
ChunkAndTimeout(chunk, tmo) == chunk # NoChunk /\ tmo # NoTimeout /\ tmo[1] # 0

\* bp.py:278-289  bp_receive: defaults, the chunk_size/timeout check, th.start()
BpReceiveStart(chunkArg, tmoArg) ==
    /\ io_pc = "idle"
    /\ io_call < MaxCalls
    /\ io_call' = io_call + 1
    /\ LET chunk == DefaultChunk(chunkArg)
           tmo   == DefaultTimeout(tmoArg)
       IN  /\ io_args' = [kind |-> "recv", chunk |-> chunk, tmo |-> tmo, n |-> 0]
           /\ IF ChunkAndTimeout(chunk, tmo)
              THEN \* bp.py:284-285
                   /\ io_out' = [call |-> io_call + 1, how |-> "raise", via |-> "check",
                                 v |-> SlotExc(io_call + 1, "ValueError", 0)]
                   /\ UNCHANGED <<io_pc, wk>>
              ELSE \* bp.py:288-289; bp.py:210-215 buf = bytearray(chunk_size)
                   /\ wk' = [wk EXCEPT ![io_call + 1] =
                                [NoWorker EXCEPT !.pc = "run", !.kind = "recv", !.chunk = chunk,
                                                 !.buf = [k \in 1..chunk |-> ZeroByte]]]
                   /\ io_pc' = "join"
                   /\ UNCHANGED io_out
    /\ UNCHANGED <<ept_defaults, rx_result, tx_result, eng_rx, eng_tx, eng_intr>>

\* bp.py:130-133  bp_send: th.start().  nch is the number of chunks the
\* payload splits into (bp.py:165), 1 when chunk_size is None (bp.py:151-154).
BpSendStart(chunkArg, nch) ==
    /\ io_pc = "idle"
    /\ io_call < MaxCalls
    /\ DefaultChunk(chunkArg) = NoChunk => nch = 1
    /\ io_call' = io_call + 1
    /\ io_args' = [kind |-> "send", chunk |-> DefaultChunk(chunkArg), tmo |-> NoTimeout, n |-> nch]
    /\ wk' = [wk EXCEPT ![io_call + 1] =
                 [NoWorker EXCEPT !.pc = IF nch = 0 THEN "dead" ELSE "run",
                                  !.kind = "send", !.chunk = DefaultChunk(chunkArg)]]
    /\ io_pc' = "join"
    /\ UNCHANGED <<ept_defaults, rx_result, tx_result, io_out, eng_rx, eng_tx, eng_intr>>

\* bp.py:170-178  _bp_send_bundle for chunk i+1 of the running send: the engine
\* accepts the chunk or raises; tx_result is overwritten either way.
SendBundleResult(n, c, ok) == IF ok THEN SlotNone(n) ELSE SlotExc(n, "EngineError", c)

\* bp.py:142-178  _bp_send on the worker of call n, one engine call per step
WorkerSend(n, ok) ==
    /\ wk[n].pc = "run"
    /\ wk[n].kind = "send"
    /\ LET c == wk[n].i + 1 IN
         /\ eng_tx' = Append(eng_tx, <<n, c, ok>>)
         /\ tx_result' = SendBundleResult(n, c, ok)
         /\ wk' = [wk EXCEPT ![n].i = c,
                             ![n].wrote = TRUE,
                             ![n].efail = IF ~ok /\ @ = "" THEN "EngineError" ELSE @,
                             ![n].pc = IF c >= io_args.n THEN "dead" ELSE "run"]
    /\ UNCHANGED <<ept_defaults, rx_result, io_pc, io_call, io_args, io_out, eng_rx, eng_intr>>

\* bp.py:231-234  idx = min(bytes_read+sz, chunk_size);
\* memv[bytes_read:idx] = bmem[0:idx-bytes_read]
CopyIntoBuffer(buf, got, data) ==
    LET idx == IF got + Len(data) < Len(buf) THEN got + Len(data) ELSE Len(buf)
    IN  [k \in 1..Len(buf) |-> IF got < k /\ k <= idx THEN data[k - got] ELSE buf[k]]

\* bp.py:236-239  if to_read < sz: extra_bytes = bmem[to_read:]
ExtraBytesDropped(extra, got, data, chunk) == extra
ExtraBytes(extra, got, data, chunk) ==
    LET idx     == IF got + Len(data) < chunk THEN got + Len(data) ELSE chunk
        to_read == idx - got
    IN  IF to_read < Len(data) THEN SubSeq(data, to_read + 1, Len(data)) ELSE extra

\* bp.py:199-255  _bp_receive on the worker of call n: the engine delivers the
\* next unit, of sz bytes
WorkerRecvUnit(n, sz) ==
    /\ wk[n].pc = "run"
    /\ wk[n].kind = "recv"
    /\ Len(eng_rx) < MaxUnits
    /\ eng_rx' = Append(eng_rx, sz)
    /\ LET id    == Len(eng_rx) + 1
           data  == UnitBytes(id, sz)
           got   == wk[n].got + sz
           u     == Append(wk[n].u, id)
           buf   == CopyIntoBuffer(wk[n].buf, wk[n].got, data)
           extra == ExtraBytes(wk[n].extra, wk[n].got, data, wk[n].chunk)
       IN  IF wk[n].chunk = NoChunk
           THEN \* bp.py:205-207
                /\ rx_result' = SlotData(n, data)
                /\ wk' = [wk EXCEPT ![n].pc = "dead", ![n].wrote = TRUE,
                                    ![n].u = u, ![n].got = got]
           ELSE IF got >= wk[n].chunk
           THEN \* bp.py:218, 245-246  leaves the loop: memv.tobytes() + extra
                /\ rx_result' = SlotData(n, buf \o extra)
                /\ wk' = [wk EXCEPT ![n].pc = "dead", ![n].wrote = TRUE,
                                    ![n].u = u, ![n].got = got,
                                    ![n].buf = buf, ![n].extra = extra]
           ELSE \* bp.py:218-242  next iteration
                /\ wk' = [wk EXCEPT ![n].u = u, ![n].got = got,
                                    ![n].buf = buf, ![n].extra = extra]
                /\ UNCHANGED rx_result
    /\ UNCHANGED <<ept_defaults, tx_result, io_pc, io_call, io_args, io_out, eng_tx, eng_intr>>

\* bp.py:199-255  _bp_receive on the worker of call n: _bp.bp_receive raises e
\* (InterruptedError once the engine honors an interrupt request)
WorkerRecvRaise(n, e) ==
    /\ wk[n].pc = "run"
    /\ wk[n].kind = "recv"
    /\ e \in EngineErrors \/ (e = "InterruptedError" /\ wk[n].intr)
    /\ IF wk[n].chunk = NoChunk
       THEN \* bp.py:252-255, 206  caught and stored
            /\ rx_result' = SlotExc(n, e, 0)
            /\ wk' = [wk EXCEPT ![n].pc = "dead", ![n].wrote = TRUE, ![n].efail = e]
       ELSE \* bp.py:220  not inside a try: the exception ends the thread
            /\ wk' = [wk EXCEPT ![n].pc = "dead", ![n].efail = e]
            /\ UNCHANGED rx_result
    /\ UNCHANGED <<ept_defaults, tx_result, io_pc, io_call, io_args, io_out, eng_rx, eng_tx, eng_intr>>

\* The outcome slot the running call reads
Slot == IF io_args.kind = "send" THEN tx_result ELSE rx_result

\* bp.py:136-140 and 292-303  join returned and the worker is not alive:
\* raise the slot's exception, else return (bp_receive: the slot's value)
JoinDone ==
    /\ io_pc = "join"
    /\ ~ThIsAlive(io_call)
    /\ io_out' = [call |-> io_call, via |-> "join", v |-> Slot,
                  how |-> IF Slot.k = "exc" THEN "raise" ELSE "return"]
    /\ io_pc' = "idle"
    /\ UNCHANGED <<ept_defaults, rx_result, tx_result, io_call, io_args, wk, eng_rx, eng_tx, eng_intr>>

\* bp.py:292-295  th.join(timeout) returned on the deadline and th.is_alive()
JoinTimeout ==
    /\ io_pc = "join"
    /\ io_args.tmo # NoTimeout
    /\ ThIsAlive(io_call)
    /\ io_pc' = "timedout"
    /\ UNCHANGED <<ept_defaults, rx_result, tx_result, io_call, io_args, io_out, wk, eng_rx, eng_tx, eng_intr>>

\* proxies.py:348  _bp.bp_interrupt(ept._sap_addr): the calls blocked on the
\* handle are asked to return; no effect when none is blocked (proxies.py:335)
EngineInterrupt ==
    [n \in CallIds |-> IF wk[n].pc = "run" /\ wk[n].kind = "recv" THEN [wk[n] EXCEPT !.intr = TRUE] ELSE wk[n]]

\* bp.py:296, 305-307 and proxies.py:331-352  _bp_receive_timeout: bp_interrupt
ReceiveTimeoutNoInterrupt ==
    /\ io_pc = "timedout"
    /\ io_pc' = "slept"
    /\ UNCHANGED <<ept_defaults, rx_result, tx_result, io_call, io_args, io_out, wk, eng_rx, eng_tx, eng_intr>>
ReceiveTimeout ==
    /\ io_pc = "timedout"
    /\ eng_intr' = eng_intr + 1
    /\ wk' = EngineInterrupt
    /\ io_pc' = "slept"
    /\ UNCHANGED <<ept_defaults, rx_result, tx_result, io_call, io_args, io_out, eng_rx, eng_tx>>

\* bp.py:297  return self.rx_result, whatever the worker does meanwhile
TimeoutReturn ==
    /\ io_pc = "slept"
    /\ io_out' = [call |-> io_call, via |-> "timeout", v |-> rx_result, how |-> "return"]
    /\ io_pc' = "idle"
    /\ UNCHANGED <<ept_defaults, rx_result, tx_result, io_call, io_args, wk, eng_rx, eng_tx, eng_intr>>

IONext ==
    \/ (\E chunk \in ChunkArgs, tmo \in TimeoutArgs : IoOpen(chunk, tmo)) /\ UNCHANGED <<regVars, sessVars, cfdpVars, rtVars, moreVars>>
    \/ (\E chunk \in ChunkArgs, tmo \in TimeoutArgs : BpReceiveStart(chunk, tmo)) /\ UNCHANGED <<regVars, sessVars, cfdpVars, rtVars, moreVars>>
    \/ (\E chunk \in ChunkArgs, nch \in 0..MaxChunks : BpSendStart(chunk, nch)) /\ UNCHANGED <<regVars, sessVars, cfdpVars, rtVars, moreVars>>
    \/ (\E n \in CallIds, ok \in BOOLEAN : WorkerSend(n, ok)) /\ UNCHANGED <<regVars, sessVars, cfdpVars, rtVars, moreVars>>
    \/ (\E n \in CallIds, sz \in UnitSizes : WorkerRecvUnit(n, sz)) /\ UNCHANGED <<regVars, sessVars, cfdpVars, rtVars, moreVars>>
    \/ (\E n \in CallIds, e \in EngineErrors \cup {"InterruptedError"} : WorkerRecvRaise(n, e)) /\ UNCHANGED <<regVars, sessVars, cfdpVars, rtVars, moreVars>>
    \/ JoinDone /\ UNCHANGED <<regVars, sessVars, cfdpVars, rtVars, moreVars>>
    \/ JoinTimeout /\ UNCHANGED <<regVars, sessVars, cfdpVars, rtVars, moreVars>>
    \/ ReceiveTimeout /\ UNCHANGED <<regVars, sessVars, cfdpVars, rtVars, moreVars>>
    \/ TimeoutReturn /\ UNCHANGED <<regVars, sessVars, cfdpVars, rtVars, moreVars>>

-----------------------------------------------------------------------------
(***************************************************************************)
(* bp_send on one Endpoint and bp_receive() on the destination Endpoint,  *)
(* with an engine that accepts every bundle and delivers the bundles      *)
(* unchanged and in order.                                                *)
(***************************************************************************)

\* Bounds of the round-trip model.
MaxSends   == 3
MaxPayload == 3

\* bp.py:142-168  _bp_send: the bundles a payload is handed to the engine as.
\* chunk_size None: the payload as one bundle (bp.py:151-154); else one bundle
\* per `for i in range(0, len(memv), chunk_size)`, memv[i:i+chunk_size]
SendBundles(data, chunk) ==
    IF chunk = NoChunk
    THEN <<data>>
    ELSE LET n == (Len(data) + chunk - 1) \div chunk
         IN  [j \in 1..n |->
                SubSeq(data, (j - 1) * chunk + 1,
                       IF j * chunk < Len(data) THEN j * chunk ELSE Len(data))]

InitRoundTrip ==
    /\ rt_sent   = <<>>
    /\ rt_flight = <<>>
    /\ rt_recv   = <<>>

\* bp.py:103-178  bp_send(dest, data, chunk_size=chunk) of a payload of len
\* bytes, every engine call succeeding
RtSend(len, chunk) ==
    /\ Len(rt_sent) < MaxSends
    /\ LET data == UnitBytes(Len(rt_sent) + 1, len) IN
         /\ rt_sent'   = Append(rt_sent, [data |-> data, chunk |-> chunk])
         /\ rt_flight' = rt_flight \o SendBundles(data, chunk)
    /\ UNCHANGED rt_recv

\* bp.py:257-303, 199-207, 248-255  bp_receive() at the destination: the next
\* bundle's payload
RtReceive ==
    /\ rt_flight # <<>>
    /\ rt_recv'   = Append(rt_recv, Head(rt_flight))
    /\ rt_flight' = Tail(rt_flight)
    /\ UNCHANGED rt_sent

RtNext ==
    \/ (\E len \in 0..MaxPayload, chunk \in ChunkArgs : RtSend(len, chunk)) /\ UNCHANGED <<regVars, sessVars, ioVars, cfdpVars, moreVars>>
    \/ RtReceive /\ UNCHANGED <<regVars, sessVars, ioVars, cfdpVars, moreVars>>

-----------------------------------------------------------------------------
(***************************************************************************)
(* One open cfdp.Entity: application threads calling cfdp_send and        *)
(* wait_for_transaction_end, the _monitor_events thread, and the engine   *)
(* that ends every started transaction with one event.                    *)
(***************************************************************************)

\* Bounds of the CFDP model.
NumApps == 2
MaxTx   == 2

AppThreads == 1..NumApps
TxIds      == 1..MaxTx
NoTx       == 0
NoSig      == [kind |-> "none", tx |-> NoTx, blocked |-> FALSE, open |-> TRUE]

InitCfdp ==
    /\ end_flag       = FALSE           \* cfdp.py:53
    /\ ok_transaction = FALSE           \* cfdp.py:54
    /\ app_pc         = [a \in AppThreads |-> "idle"]
    /\ app_ret        = [a \in AppThreads |-> <<>>]
    /\ app_sig        = [a \in AppThreads |-> NoSig]
    /\ app_tx         = [a \in AppThreads |-> NoTx]
    /\ mon_pc         = "loop"          \* cfdp.py:57-58
    /\ mon_evt        = [kind |-> "none", tx |-> NoTx]
    /\ cfdp_txs       = <<>>
    /\ cfdp_events    = <<>>
    /\ ent_open       = TRUE            \* cfdp.py:40-43
    /\ close_pc       = "idle"
    /\ mon_intr       = FALSE

\* cfdp.py:92-126  Entity.cfdp_send by thread a
CfdpSend(a) ==
    /\ app_pc[a] = "idle"
    /\ ent_open                         \* cfdp.py:92  _chk_is_open, else it raises
    /\ Len(cfdp_txs) < MaxTx
    /\ ok_transaction' = FALSE                          \* cfdp.py:122
    /\ cfdp_txs' = Append(cfdp_txs, "active")           \* cfdp.py:125
    /\ app_tx' = [app_tx EXCEPT ![a] = Len(cfdp_txs) + 1]
    /\ UNCHANGED <<closeVars, end_flag, app_pc, app_ret, app_sig, mon_pc, mon_evt, cfdp_events>>

\* The engine ends transaction t and queues its event
\* (CFDP_TRANSACTION_FINISHED_IND or CFDP_ABANDONED_IND).
EngineEndsTransaction(t, kind) ==
    /\ t \in DOMAIN cfdp_txs
    /\ cfdp_txs[t] = "active"
    /\ cfdp_txs' = [cfdp_txs EXCEPT ![t] = kind]
    /\ cfdp_events' = Append(cfdp_events, [kind |-> kind, tx |-> t])
    /\ UNCHANGED <<closeVars, end_flag, ok_transaction, app_pc, app_ret, app_sig, app_tx, mon_pc, mon_evt>>

\* cfdp.py:219  self._end_transaction.wait(): Event.wait returns at once when
\* the flag is set, else the thread blocks on the condition
WaitBegin(a) ==
    /\ app_pc[a] = "idle"
    /\ app_ret' = [app_ret EXCEPT ![a] = <<>>]
    /\ IF end_flag
       THEN /\ app_pc' = [app_pc EXCEPT ![a] = "woken"]
            /\ app_sig' = [app_sig EXCEPT ![a] =
                              [kind |-> mon_evt.kind, tx |-> mon_evt.tx, blocked |-> FALSE,
                               open |-> ent_open]]
       ELSE /\ app_pc' = [app_pc EXCEPT ![a] = "waiting"]
            /\ app_sig' = [app_sig EXCEPT ![a] = [NoSig EXCEPT !.open = ent_open]]
    /\ UNCHANGED <<closeVars, end_flag, ok_transaction, app_tx, mon_pc, mon_evt, cfdp_txs, cfdp_events>>

\* cfdp.py:222  return self._ok_transaction
WaitReturn(a) ==
    /\ app_pc[a] = "woken"
    /\ app_ret' = [app_ret EXCEPT ![a] = <<ok_transaction>>]
    /\ app_pc' = [app_pc EXCEPT ![a] = "idle"]
    /\ app_tx' = [app_tx EXCEPT ![a] = NoTx]
    /\ UNCHANGED <<closeVars, end_flag, ok_transaction, app_sig, mon_pc, mon_evt, cfdp_txs, cfdp_events>>

\* cfdp.py:240  while self.is_open: enter _cfdp.cfdp_next_event, or leave
MonitorLoop ==
    /\ mon_pc = "loop"
    /\ mon_pc' = IF ent_open THEN "fetch" ELSE "exit"
    /\ UNCHANGED <<closeVars, end_flag, ok_transaction, app_pc, app_ret, app_sig, app_tx,
                   mon_evt, cfdp_txs, cfdp_events>>

\* cfdp.py:240-264  _monitor_events: fetch the next event (handlers aside)
MonitorFetch ==
    /\ mon_pc = "fetch"
    /\ cfdp_events # <<>>
    /\ mon_evt' = Head(cfdp_events)
    /\ cfdp_events' = Tail(cfdp_events)
    /\ mon_pc' = "mark"
    /\ UNCHANGED <<closeVars, end_flag, ok_transaction, app_pc, app_ret, app_sig, app_tx, cfdp_txs>>

\* cfdp.py:266-271, 230  _mark_transaction_end: self._ok_transaction = success
MonitorMark ==
    /\ mon_pc = "mark"
    /\ ok_transaction' = (mon_evt.kind = "finished")
    /\ mon_pc' = "set"
    /\ UNCHANGED <<closeVars, end_flag, app_pc, app_ret, app_sig, app_tx, mon_evt, cfdp_txs, cfdp_events>>

\* cfdp.py:233  self._end_transaction.set(): the flag is set and every thread
\* blocked in wait is released
MonitorSet ==
    /\ mon_pc = "set"
    /\ end_flag' = TRUE
    /\ app_pc' = [a \in AppThreads |-> IF app_pc[a] = "waiting" THEN "woken" ELSE app_pc[a]]
    /\ app_sig' = [a \in AppThreads |->
                     IF app_pc[a] = "waiting"
                     THEN [kind |-> mon_evt.kind, tx |-> mon_evt.tx, blocked |-> TRUE,
                           open |-> app_sig[a].open]
                     ELSE app_sig[a]]
    /\ mon_pc' = "clear"
    /\ UNCHANGED <<closeVars, ok_transaction, app_ret, app_tx, mon_evt, cfdp_txs, cfdp_events>>

\* cfdp.py:236  self._end_transaction.clear()
MonitorClear ==
    /\ mon_pc = "clear"
    /\ end_flag' = FALSE
    /\ mon_pc' = "loop"
    /\ UNCHANGED <<closeVars, ok_transaction, app_pc, app_ret, app_sig, app_tx, mon_evt, cfdp_txs, cfdp_events>>

MonitorStep == MonitorLoop \/ MonitorFetch \/ MonitorMark \/ MonitorSet \/ MonitorClear

CfdpNext ==
    \/ (\E a \in AppThreads : CfdpSend(a)) /\ UNCHANGED <<regVars, sessVars, ioVars, rtVars, moreVars>>
    \/ (\E a \in AppThreads : WaitBegin(a)) /\ UNCHANGED <<regVars, sessVars, ioVars, rtVars, moreVars>>
    \/ (\E a \in AppThreads : WaitReturn(a)) /\ UNCHANGED <<regVars, sessVars, ioVars, rtVars, moreVars>>
    \/ (\E t \in TxIds, kind \in {"finished", "abandoned"} : EngineEndsTransaction(t, kind)) /\ UNCHANGED <<regVars, sessVars, ioVars, rtVars, moreVars>>
    \/ MonitorLoop /\ UNCHANGED <<regVars, sessVars, ioVars, rtVars, moreVars>>
    \/ MonitorFetch /\ UNCHANGED <<regVars, sessVars, ioVars, rtVars, moreVars>>
    \/ MonitorMark /\ UNCHANGED <<regVars, sessVars, ioVars, rtVars, moreVars>>
    \/ MonitorSet /\ UNCHANGED <<regVars, sessVars, ioVars, rtVars, moreVars>>
    \/ MonitorClear /\ UNCHANGED <<regVars, sessVars, ioVars, rtVars, moreVars>>

\* cfdp.py:219-222  self._end_transaction.wait(timeout=timeout) with a timeout:
\* the deadline passes while the thread is blocked, wait returns and the
\* thread returns self._ok_transaction
WaitTimeout(a) ==
    /\ app_pc[a] = "waiting"
    /\ app_pc' = [app_pc EXCEPT ![a] = "idle"]
    /\ app_sig' = [app_sig EXCEPT ![a] = [@ EXCEPT !.kind = "timeout", !.blocked = TRUE]]
    /\ app_ret' = [app_ret EXCEPT ![a] = <<ok_transaction>>]
    /\ app_tx' = [app_tx EXCEPT ![a] = NoTx]
    /\ UNCHANGED <<closeVars, end_flag, ok_transaction, mon_pc, mon_evt, cfdp_txs, cfdp_events>>

\* The Entity with waits that are given a timeout.
CfdpTimedNext ==
    \/ CfdpNext
    \/ (\E a \in AppThreads : WaitTimeout(a)) /\ UNCHANGED <<regVars, sessVars, ioVars, rtVars, moreVars>>

(***************************************************************************)
(* The same Entity with CfdpProxy.cfdp_close called once by a thread of   *)
(* its own, and with event handlers that may raise.                       *)
(***************************************************************************)

\* What the close and handler steps leave alone unless said otherwise.
waitVars == <<end_flag, ok_transaction, app_pc, app_ret, app_sig>>
evtVars  == <<app_tx, mon_evt, cfdp_txs, cfdp_events>>

\* cfdp.py:84  _cfdp.cfdp_interrupt_events(): the request stays with the
\* engine until an event fetch, blocked or about to block, returns on it
cfdp_interrupt_events == TRUE

\* proxies.py:456-474 and cfdp.py:73-81  cfdp_close: pop the Entity, close it
\* in the engine, _cleanup clears proxy, entity_nbr, _param_addr, endpoint
CloseBegin ==
    /\ close_pc = "idle"
    /\ ent_open
    /\ ent_open' = FALSE
    /\ close_pc' = "interrupt"
    /\ UNCHANGED <<waitVars, evtVars, mon_pc, mon_intr>>

\* cfdp.py:83-84  _cleanup: stop the thread monitoring CFDP events
CloseInterrupt ==
    /\ close_pc = "interrupt"
    /\ mon_intr' = cfdp_interrupt_events
    /\ close_pc' = "join"
    /\ UNCHANGED <<waitVars, evtVars, mon_pc, ent_open>>

\* cfdp.py:86-87  self.th.join() returns once the monitor thread has ended
CloseJoinSkipped ==
    /\ close_pc = "join"
    /\ close_pc' = "mark"
    /\ UNCHANGED <<waitVars, evtVars, mon_pc, ent_open, mon_intr>>
CloseJoin ==
    /\ close_pc = "join"
    /\ mon_pc \in {"exit", "dead"}
    /\ close_pc' = "mark"
    /\ UNCHANGED <<waitVars, evtVars, mon_pc, ent_open, mon_intr>>

\* cfdp.py:89-90, 230  _mark_transaction_end(False): self._ok_transaction = False
CloseMark ==
    /\ close_pc = "mark"
    /\ ok_transaction' = FALSE
    /\ close_pc' = "set"
    /\ UNCHANGED <<end_flag, app_pc, app_ret, app_sig, evtVars, mon_pc, ent_open, mon_intr>>

\* cfdp.py:233  self._end_transaction.set(), called by _cleanup
CloseSet ==
    /\ close_pc = "set"
    /\ end_flag' = TRUE
    /\ app_pc' = [a \in AppThreads |-> IF app_pc[a] = "waiting" THEN "woken" ELSE app_pc[a]]
    /\ app_sig' = [a \in AppThreads |->
                     IF app_pc[a] = "waiting"
                     THEN [kind |-> "closed", tx |-> NoTx, blocked |-> TRUE,
                           open |-> app_sig[a].open]
                     ELSE app_sig[a]]
    /\ close_pc' = "clear"
    /\ UNCHANGED <<ok_transaction, app_ret, evtVars, mon_pc, ent_open, mon_intr>>

\* cfdp.py:236  self._end_transaction.clear(), called by _cleanup; cfdp_close returns
CloseClear ==
    /\ close_pc = "clear"
    /\ end_flag' = FALSE
    /\ close_pc' = "done"
    /\ UNCHANGED <<ok_transaction, app_pc, app_ret, app_sig, evtVars, mon_pc, ent_open, mon_intr>>

CloseStep == CloseBegin \/ CloseInterrupt \/ CloseJoin \/ CloseMark \/ CloseSet \/ CloseClear

\* cfdp.py:242-247  cfdp_next_event returns on the interrupt with
\* CFDP_NO_EVENT: `continue`
MonitorInterrupted ==
    /\ mon_pc = "fetch"
    /\ mon_intr
    /\ mon_intr' = FALSE
    /\ mon_pc' = "loop"
    /\ UNCHANGED <<waitVars, evtVars, ent_open, close_pc>>

\* cfdp.py:250-261  a registered handler is called with the event and raises:
\* only KeyError is caught, any other exception ends the thread
MonitorHandlerRaises ==
    /\ mon_pc = "mark"
    /\ mon_pc' = "dead"
    /\ UNCHANGED <<waitVars, evtVars, closeVars>>

EntityNext ==
    \/ CfdpNext
    \/ CloseBegin /\ UNCHANGED <<regVars, sessVars, ioVars, rtVars, moreVars>>
    \/ CloseInterrupt /\ UNCHANGED <<regVars, sessVars, ioVars, rtVars, moreVars>>
    \/ CloseJoin /\ UNCHANGED <<regVars, sessVars, ioVars, rtVars, moreVars>>
    \/ CloseMark /\ UNCHANGED <<regVars, sessVars, ioVars, rtVars, moreVars>>
    \/ CloseSet /\ UNCHANGED <<regVars, sessVars, ioVars, rtVars, moreVars>>
    \/ CloseClear /\ UNCHANGED <<regVars, sessVars, ioVars, rtVars, moreVars>>
    \/ MonitorInterrupted /\ UNCHANGED <<regVars, sessVars, ioVars, rtVars, moreVars>>
    \/ MonitorHandlerRaises /\ UNCHANGED <<regVars, sessVars, ioVars, rtVars, moreVars>>

-----------------------------------------------------------------------------
(***************************************************************************)
(* Several application threads calling bp_receive() / bp_send() on the    *)
(* same open Endpoint at once, as src/tests/bp_tests/rx.py and tx.py do.  *)
(* Every call has a worker thread of its own; rx_result and tx_result are *)
(* fields of the Endpoint.                                                 *)
(***************************************************************************)

\* Bounds: the calling threads and the calls each of them makes.
NumCallers == 2
MaxMtCalls == 2

Callers == 1..NumCallers

InitMt ==
    mt = [t \in Callers |-> [pc |-> "idle", kind |-> "recv", outs |-> <<>>]]

\* bp.py:130-133, 287-289  th = Thread(target=self._bp_receive / _bp_send);
\* th.start() in thread t (no chunk_size, no timeout)
MtStart(t, kind) ==
    /\ mt[t].pc = "idle"
    /\ Len(mt[t].outs) < MaxMtCalls
    /\ mt' = [mt EXCEPT ![t].pc = "run", ![t].kind = kind]
    /\ UNCHANGED <<rx_result, tx_result, eng_rx, eng_tx>>

\* bp.py:203-207, 248-255  the worker of t's call: the engine delivers the next
\* unit, of sz bytes, and the worker stores it in self.rx_result
MtWorkerRecv(t, sz) ==
    /\ mt[t].pc = "run"
    /\ mt[t].kind = "recv"
    /\ Len(eng_rx) < MaxUnits
    /\ eng_rx' = Append(eng_rx, sz)
    /\ rx_result' = SlotData(t, UnitBytes(Len(eng_rx) + 1, sz))
    /\ mt' = [mt EXCEPT ![t].pc = "dead"]
    /\ UNCHANGED <<tx_result, eng_tx>>

\* bp.py:151-154, 170-178  the worker of t's call: _bp.bp_send accepts the
\* bundle or raises, and the worker stores None or the exception in tx_result
MtWorkerSend(t, ok) ==
    /\ mt[t].pc = "run"
    /\ mt[t].kind = "send"
    /\ eng_tx' = Append(eng_tx, <<t, 1, ok>>)
    /\ tx_result' = SendBundleResult(t, 1, ok)
    /\ mt' = [mt EXCEPT ![t].pc = "dead"]
    /\ UNCHANGED <<rx_result, eng_rx>>

\* bp.py:136-140, 292-303  th.join() returned in thread t: raise the
\* exception the slot holds, else return (bp_receive: the slot's value)
MtJoin(t) ==
    /\ mt[t].pc = "dead"
    /\ LET slot == IF mt[t].kind = "send" THEN tx_result ELSE rx_result IN
         mt' = [mt EXCEPT ![t].pc = "idle",
                          ![t].outs = Append(@, [kind |-> mt[t].kind, v |-> slot])]
    /\ UNCHANGED <<rx_result, tx_result, eng_rx, eng_tx>>

MtNext ==
    \/ (\E t \in Callers, kind \in {"recv", "send"} : MtStart(t, kind)) /\ UNCHANGED <<regVars, sessVars, cfdpVars, rtVars, sdVars, dp, mem, rc, sn, io_pc, io_call, io_args, io_out, wk, eng_intr, ept_defaults>>
    \/ (\E t \in Callers, sz \in UnitSizes : MtWorkerRecv(t, sz)) /\ UNCHANGED <<regVars, sessVars, cfdpVars, rtVars, sdVars, dp, mem, rc, sn, io_pc, io_call, io_args, io_out, wk, eng_intr, ept_defaults>>
    \/ (\E t \in Callers, ok \in BOOLEAN : MtWorkerSend(t, ok)) /\ UNCHANGED <<regVars, sessVars, cfdpVars, rtVars, sdVars, dp, mem, rc, sn, io_pc, io_call, io_args, io_out, wk, eng_intr, ept_defaults>>
    \/ (\E t \in Callers : MtJoin(t)) /\ UNCHANGED <<regVars, sessVars, cfdpVars, rtVars, sdVars, dp, mem, rc, sn, io_pc, io_call, io_args, io_out, wk, eng_intr, ept_defaults>>

-----------------------------------------------------------------------------
(***************************************************************************)
(* proxies.shutdown, run by pyion_sigint_handler, over the proxies of the *)
(* five registries.  Every proxy has at most one session: an Endpoint, an *)
(* Entity, an AccessPoint, or the sampler thread of a memory proxy.  The  *)
(* session is opened by a plain call or as the subject of a `with` block. *)
(***************************************************************************)

\* Bounds: proxies per registry, and the opens and detaches before the signal.
NumSdProxies == 2
MaxSdOps     == 4

\* proxies.py:116-146  the registries in the order shutdown() walks them, and
\* the calls it makes on each proxy of a registry
SdGroups == <<"bp", "cfdp", "ltp", "sdr", "psm">>
SdOpsCloseFirst(g) ==
    IF g = 1 THEN <<"close">> ELSE IF g = 2 THEN <<"close", "cancel">>
    ELSE IF g = 3 THEN <<"close", "interrupt">> ELSE <<"stop">>
SdOps(g) ==
    IF g = 1 THEN <<"close">> ELSE IF g = 2 THEN <<"cancel", "close">>
    ELSE IF g = 3 THEN <<"interrupt", "close">> ELSE <<"stop">>

\* proxies.py:58-112  get_bp_proxy, get_cfdp_proxy, get_ltp_proxy attach the
\* proxy; get_sdr_proxy, get_psm_proxy do not (utils.py:55)
InitShutdown ==
    /\ sd_px = [g \in DOMAIN SdGroups |-> [p \in 1..NumSdProxies |->
                    [attached |-> g <= 3, open |-> FALSE, scope |-> "no"]]]
    /\ sd_pc = [g |-> 0, p |-> 1, ph |-> 1, raised |-> FALSE]
    /\ sd_log = <<>>

\* Opens and detaches made so far
SdOpsDone ==
    Cardinality({x \in (DOMAIN SdGroups) \X (1..NumSdProxies) :
                    sd_px[x[1]][x[2]].open \/ sd_px[x[1]][x[2]].scope # "no"}) +
    Cardinality({x \in (1..3) \X (1..NumSdProxies) : ~sd_px[x[1]][x[2]].attached})

\* proxies.py:242-299, 419-454, 540-561  bp_open / cfdp_open / ltp_open on an
\* attached proxy; mem.py:71-96  start_monitoring on a memory proxy
SdOpen(g, p) ==
    /\ sd_pc.g = 0
    /\ SdOpsDone < MaxSdOps
    /\ g <= 3 => sd_px[g][p].attached
    /\ ~sd_px[g][p].open
    /\ sd_px[g][p].scope = "no"
    /\ sd_px' = [sd_px EXCEPT ![g][p].open = TRUE]
    /\ UNCHANGED <<sd_pc, sd_log>>

\* bp.py:309-311, cfdp.py:273-275, ltp.py:102-104  `with proxy.bp_open(...) as
\* s:` (cfdp_open, ltp_open): the session is opened and __enter__ returns it
SdEnter(g, p) ==
    /\ sd_pc.g = 0
    /\ SdOpsDone < MaxSdOps
    /\ g <= 3
    /\ sd_px[g][p].attached
    /\ ~sd_px[g][p].open
    /\ sd_px[g][p].scope = "no"
    /\ sd_px' = [sd_px EXCEPT ![g][p].open = TRUE, ![g][p].scope = "in"]
    /\ UNCHANGED <<sd_pc, sd_log>>

\* The block ends, normally or (err) by an exception, and __exit__ runs.
\* bp.py:313-315  Endpoint.__exit__: self.close(), which returns on a closed
\* Endpoint (bp.py:95-99) and raises IOError on a detached proxy
\* (proxies.py:301); cfdp.py:277-279, ltp.py:106-108  __exit__: pass
SdExit(g, p, err) ==
    /\ sd_pc.g \in {0, (Len(SdGroups) + 1)}
    /\ sd_px[g][p].scope = "in"
    /\ sd_px' = [sd_px EXCEPT ![g][p].scope = IF err THEN "out_err" ELSE "out",
                              ![g][p].open  = IF g = 1 /\ sd_px[g][p].attached
                                              THEN FALSE ELSE @]
    /\ UNCHANGED <<sd_pc, sd_log>>

\* proxies.py:233-240, 410-417, 531-538  bp_detach / cfdp_detach / ltp_detach:
\* attached = False, the sessions stay in the map
SdDetach(g, p) ==
    /\ sd_pc.g = 0
    /\ SdOpsDone < MaxSdOps
    /\ g <= 3
    /\ sd_px[g][p].attached
    /\ sd_px' = [sd_px EXCEPT ![g][p].attached = FALSE]
    /\ UNCHANGED <<sd_pc, sd_log>>

\* proxies.py:152-157  SIGINT: pyion_sigint_handler calls shutdown()
SdBegin ==
    /\ sd_pc.g = 0
    /\ sd_pc' = [sd_pc EXCEPT !.g = 1]
    /\ UNCHANGED <<sd_px, sd_log>>

\* proxies.py:118-146  the for loops: next call on the proxy, next proxy of
\* the registry, next registry
SdAdvance(pc) ==
    IF pc.ph < Len(SdOps(pc.g)) THEN [pc EXCEPT !.ph = pc.ph + 1]
    ELSE IF pc.p < NumSdProxies THEN [pc EXCEPT !.p = pc.p + 1, !.ph = 1]
    ELSE [pc EXCEPT !.g = pc.g + 1, !.p = 1, !.ph = 1]

\* proxies.py:116-146  one call of shutdown(): bp_close_all (354-358),
\* cfdp_cancel_all (481-484), cfdp_close_all (476-479), ltp_interrupt_all
\* (588-591), ltp_close_all (583-586), MemoryProxy.close (mem.py:54-69).  With
\* no open session the call does nothing; bp_close, cfdp_close and ltp_close
\* raise IOError on a detached proxy (utils.py:107-117), which ends shutdown().
SdStep ==
    /\ sd_pc.g \in DOMAIN SdGroups
    /\ LET g  == sd_pc.g
           p  == sd_pc.p
           op == SdOps(g)[sd_pc.ph]
       IN  IF ~sd_px[g][p].open
           THEN /\ sd_pc' = SdAdvance(sd_pc)
                /\ UNCHANGED <<sd_px, sd_log>>
           ELSE IF op = "close" /\ ~sd_px[g][p].attached
           THEN /\ sd_pc' = [sd_pc EXCEPT !.g = (Len(SdGroups) + 1), !.raised = TRUE]
                /\ UNCHANGED <<sd_px, sd_log>>
           ELSE /\ sd_log' = Append(sd_log, [g |-> g, p |-> p, op |-> op])
                /\ sd_px' = [sd_px EXCEPT ![g][p].open =
                                 IF op \in {"close", "stop"} THEN FALSE ELSE @]
                /\ sd_pc' = SdAdvance(sd_pc)


SdNext ==
    \/ (\E g \in DOMAIN SdGroups, p \in 1..NumSdProxies : SdOpen(g, p)) /\ UNCHANGED <<regVars, sessVars, ioVars, cfdpVars, rtVars, mt, dp, mem, rc, sn>>
    \/ (\E g \in DOMAIN SdGroups, p \in 1..NumSdProxies : SdDetach(g, p)) /\ UNCHANGED <<regVars, sessVars, ioVars, cfdpVars, rtVars, mt, dp, mem, rc, sn>>
    \/ SdBegin /\ UNCHANGED <<regVars, sessVars, ioVars, cfdpVars, rtVars, mt, dp, mem, rc, sn>>
    \/ SdStep /\ UNCHANGED <<regVars, sessVars, ioVars, cfdpVars, rtVars, mt, dp, mem, rc, sn>>

\* The same with sessions used in `with` blocks.
ScopeNext ==
    \/ SdNext
    \/ (\E g \in 1..3, p \in 1..NumSdProxies : SdEnter(g, p)) /\ UNCHANGED <<regVars, sessVars, ioVars, cfdpVars, rtVars, mt, dp, mem, rc, sn>>
    \/ (\E g \in 1..3, p \in 1..NumSdProxies, err \in BOOLEAN : SdExit(g, p, err)) /\ UNCHANGED <<regVars, sessVars, ioVars, cfdpVars, rtVars, mt, dp, mem, rc, sn>>

-----------------------------------------------------------------------------
(***************************************************************************)
(* Event dispatch of one open Entity: register_event_handler called by    *)
(* the application, and the iterations of the _monitor_events loop.  A    *)
(* handler returns, raises KeyError, or raises another exception.         *)
(***************************************************************************)

\* Bound: the events the monitor fetches.
MaxDpEvents == 2

\* constants.py:150-162  event kinds, CFDP_ALL_IND ("all") and CFDP_NO_EVENT
\* ("none") apart
DpKinds == {"finished", "abandoned", "other"}

\* cfdp.py:54-58  no handler registered, monitor thread started
InitDispatch ==
    dp = [eh    |-> [k \in DpKinds \cup {"all"} |-> "unset"],
          evts  |-> <<>>,
          calls |-> <<>>,
          alive |-> TRUE]

\* cfdp.py:200-209  register_event_handler(event, func): func returns ("ok"),
\* raises KeyError ("keyerr") or raises something else ("raises")
DpRegister(k, func) ==
    /\ dp' = [dp EXCEPT !.eh[k] = func]
    /\ UNCHANGED <<regVars, sessVars, ioVars, cfdpVars, rtVars, mt, sdVars, mem, rc, sn>>

\* cfdp.py:240-261  one iteration of the loop: fetch, `continue` on
\* CFDP_NO_EVENT, then the two try blocks.  A missing handler and a KeyError
\* raised by the handler are caught; another exception ends the thread.
DpIterate(evt) ==
    /\ dp.alive
    /\ Len(dp.evts) < MaxDpEvents
    /\ LET exact == IF evt = "none" THEN "unset" ELSE dp.eh[evt]
           reach == evt # "none" /\ exact # "raises"
           all   == IF reach THEN dp.eh["all"] ELSE "unset"
       IN  dp' = [dp EXCEPT
                    !.evts  = Append(@, evt),
                    !.calls = @ \o (IF exact # "unset" THEN <<[h |-> evt, evt |-> evt]>> ELSE <<>>)
                                \o (IF all # "unset" THEN <<[h |-> "all", evt |-> evt]>> ELSE <<>>),
                    !.alive = exact # "raises" /\ all # "raises"]
    /\ UNCHANGED <<regVars, sessVars, ioVars, cfdpVars, rtVars, mt, sdVars, mem, rc, sn>>

DpNext ==
    \/ \E k \in DpKinds \cup {"all"}, func \in {"ok", "keyerr", "raises"} : DpRegister(k, func)
    \/ \E evt \in DpKinds \cup {"none"} : DpIterate(evt)

-----------------------------------------------------------------------------
(***************************************************************************)
(* One memory proxy (SdrProxy or PsmProxy): start_monitoring,             *)
(* stop_monitoring and close called one after another by the application, *)
(* and the sampler threads running _start_monitoring.  The clock advances *)
(* while a sampler sleeps at the end of an iteration.                      *)
(***************************************************************************)

\* Bounds: the clock, the API calls, the largest timespan argument.
MaxMemTime  == 4
MaxMemCalls == 3
MaxTspan    == 2

\* mem.py:36-47  MemoryProxy.__init__.  th is the index of self._th among the
\* threads started so far (0: None); results maps a timestamp to the samples
\* stored under it in the three series; dump is what the last call of
\* self.dump() did.
InitMem ==
    mem = [monitor_on |-> FALSE, tspan |-> -1, th |-> 0, results |-> {},
           ths |-> <<>>, now |-> 0, pc |-> "idle", calls |-> 0, iters |-> 0,
           dump |-> "none",
           last |-> [op |-> "none", err |-> "", ret |-> {}]]

\* mem.py:83  `if self._monitor_on`
MonitorOnUnchecked == FALSE
MonitorOn == mem.monitor_on

\* mem.py:71-96  start_monitoring(timespan=tspan)
MemStart(tspan) ==
    /\ mem.pc = "idle"
    /\ mem.calls < MaxMemCalls
    /\ IF MonitorOn
       THEN mem' = [mem EXCEPT !.calls = @ + 1,
                               !.last = [op |-> "start", err |-> "ValueError", ret |-> {}]]
       ELSE mem' = [mem EXCEPT !.calls = @ + 1,
                               !.monitor_on = TRUE, !.results = {}, !.tspan = tspan,
                               !.ths = Append(@, [alive |-> TRUE, tic |-> mem.now]),
                               !.th = Len(mem.ths) + 1,
                               !.last = [op |-> "start", err |-> "", ret |-> {}]]

\* mem.py:132-143  stop_monitoring up to self._th.join()
MemStop ==
    /\ mem.pc = "idle"
    /\ mem.calls < MaxMemCalls
    /\ IF ~mem.monitor_on
       THEN mem' = [mem EXCEPT !.calls = @ + 1,
                               !.last = [op |-> "stop", err |-> "", ret |-> {}]]
       ELSE mem' = [mem EXCEPT !.calls = @ + 1,
                               !.monitor_on = FALSE, !.tspan = -1, !.pc = "stop_join",
                               !.last = [op |-> "stop", err |-> "", ret |-> {}]]

\* mem.py:54-66  close up to self._th.join()
MemClose ==
    /\ mem.pc = "idle"
    /\ mem.calls < MaxMemCalls
    /\ IF mem.th = 0 \/ ~mem.ths[mem.th].alive
       THEN mem' = [mem EXCEPT !.calls = @ + 1,
                               !.last = [op |-> "close", err |-> "", ret |-> {}]]
       ELSE mem' = [mem EXCEPT !.calls = @ + 1,
                               !.monitor_on = FALSE, !.pc = "close_join",
                               !.last = [op |-> "close", err |-> "", ret |-> {}]]

\* mem.py:143-146  join returned: stop_monitoring returns self._results;
\* mem.py:66-69  close deletes self._results
MemJoin ==
    /\ mem.pc \in {"stop_join", "close_join"}
    /\ ~mem.ths[mem.th].alive
    /\ mem' = [mem EXCEPT !.pc = "idle",
                          !.results = IF mem.pc = "close_join" THEN {} ELSE @,
                          !.last = IF mem.pc = "close_join"
                                   THEN [op |-> "close", err |-> "", ret |-> {}]
                                   ELSE [op |-> "stop", err |-> "", ret |-> mem.results]]

\* mem.py:118-122  the try block around self.dump(): the three values of the
\* measurement, and whether the thread goes on
TakeMeasurementUncaught(ok) ==
    [summary |-> "data", small |-> "data", large |-> "data", alive |-> ok]
TakeMeasurement(ok) ==
    IF ok THEN [summary |-> "data", small |-> "data", large |-> "data", alive |-> TRUE]
    ELSE [summary |-> "error", small |-> "None", large |-> "None", alive |-> TRUE]

\* mem.py:108-127  clear the results when the timespan has elapsed, then store
\* the measurement m under the timestamp t (a dict: one entry per timestamp)
StoreThenClear(results, flush, t, m) ==
    IF flush THEN {}
    ELSE {r \in results : r.t # t} \cup
         {[t |-> t, summary |-> m.summary, small |-> m.small, large |-> m.large]}
ClearThenStore(results, flush, t, m) ==
    {r \in (IF flush THEN {} ELSE results) : r.t # t} \cup
    {[t |-> t, summary |-> m.summary, small |-> m.small, large |-> m.large]}

\* mem.py:103-130  one iteration of the loop of sampler thread i: the engine's
\* dump succeeds or raises (ok), and the thread sleeps d ticks at the end
MemSample(i, ok, d) ==
    /\ mem.ths[i].alive
    /\ mem.monitor_on
    /\ mem.now + d <= MaxMemTime
    /\ LET flush == mem.tspan > 0 /\ mem.now - mem.ths[i].tic >= mem.tspan
           m     == TakeMeasurement(ok)
       IN  mem' = [mem EXCEPT
                     !.iters = @ + 1,
                     !.dump = IF ok THEN "returned" ELSE "raised",
                     !.now = @ + d,
                     !.ths[i].tic = IF flush THEN mem.now ELSE @,
                     !.ths[i].alive = m.alive,
                     !.results = IF m.alive THEN ClearThenStore(mem.results, flush, mem.now, m)
                                 ELSE IF flush THEN {} ELSE @]

\* mem.py:103  `while self._monitor_on` is false: sampler thread i ends
MemThExit(i) ==
    /\ mem.ths[i].alive
    /\ ~mem.monitor_on
    /\ mem' = [mem EXCEPT !.ths[i].alive = FALSE]

MemNext ==
    \/ (\E tspan \in -1..MaxTspan : MemStart(tspan)) /\ UNCHANGED <<regVars, sessVars, ioVars, cfdpVars, rtVars, mt, sdVars, dp, rc, sn>>
    \/ MemStop /\ UNCHANGED <<regVars, sessVars, ioVars, cfdpVars, rtVars, mt, sdVars, dp, rc, sn>>
    \/ MemClose /\ UNCHANGED <<regVars, sessVars, ioVars, cfdpVars, rtVars, mt, sdVars, dp, rc, sn>>
    \/ MemJoin /\ UNCHANGED <<regVars, sessVars, ioVars, cfdpVars, rtVars, mt, sdVars, dp, rc, sn>>
    \/ (\E i \in DOMAIN mem.ths, ok \in BOOLEAN, d \in 1..2 : MemSample(i, ok, d))
          /\ UNCHANGED <<regVars, sessVars, ioVars, cfdpVars, rtVars, mt, sdVars, dp, rc, sn>>
    \/ (\E i \in DOMAIN mem.ths : MemThExit(i)) /\ UNCHANGED <<regVars, sessVars, ioVars, cfdpVars, rtVars, mt, sdVars, dp, rc, sn>>

-----------------------------------------------------------------------------
(***************************************************************************)
(* One open session (a bp.Endpoint or an ltp.AccessPoint), a thread in    *)
(* bp_receive / ltp_receive without timeout, and another thread that      *)
(* closes the session through its proxy.  The receive runs its engine     *)
(* call on a worker and joins it; the close runs beside both.             *)
(***************************************************************************)

InitRace ==
    rc = [proto |-> "none", chunk |-> NoChunk, open |-> FALSE, nat |-> 0, late |-> 0,
          c |-> "idle", app |-> "idle", w |-> "none", intr |-> FALSE,
          got |-> 0, units |-> 0, buf |-> <<>>, extra |-> <<>>, res |-> SlotNone(0)]

\* proxies.py:279-299 / 545-561  bp_open(eid, chunk_size=chunk) or ltp_open
RcOpen(proto, chunk) ==
    /\ rc.proto = "none"
    /\ proto = "ltp" => chunk = NoChunk
    /\ rc' = [rc EXCEPT !.proto = proto, !.chunk = chunk, !.open = TRUE]
    /\ UNCHANGED <<regVars, sessVars, ioVars, cfdpVars, rtVars, mt, sdVars, dp, mem, sn>>

\* bp.py:257-289 / ltp.py:74-79  _chk_is_open, th.start(): the worker begins
\* _bp_receive (bp.py:205, 210-218) or _ltp_receive
RcReceive ==
    /\ rc.app = "idle"
    /\ rc.open
    /\ rc' = [rc EXCEPT !.app = "join",
                        !.w = IF rc.chunk = NoChunk THEN "enter" ELSE "check",
                        !.buf = [k \in 1..rc.chunk |-> ZeroByte]]
    /\ UNCHANGED <<regVars, sessVars, ioVars, cfdpVars, rtVars, mt, sdVars, dp, mem, sn>>

\* bp.py:218  while self.is_open and bytes_read < chunk_size; bp.py:245-246
\* past the loop: self.rx_result = memv.tobytes() (+ extra_bytes)
RcWorkerCheck ==
    /\ rc.w = "check"
    /\ IF rc.open /\ rc.got < rc.chunk
       THEN rc' = [rc EXCEPT !.w = "enter"]
       ELSE rc' = [rc EXCEPT !.w = "dead", !.res = SlotData(1, rc.buf \o rc.extra)]
    /\ UNCHANGED <<regVars, sessVars, ioVars, cfdpVars, rtVars, mt, sdVars, dp, mem, sn>>

\* bp.py:220, 253 / ltp.py:92  the worker reads self._sap_addr and calls the
\* engine's receive with it: the handle, or None once _cleanup has run (the
\* engine call then raises; caught at bp.py:254 and ltp.py:93, not at bp.py:220)
RcWorkerEnter ==
    /\ rc.w = "enter"
    /\ IF rc.open
       THEN rc' = [rc EXCEPT !.w = "blocked",
                             !.late = IF rc.nat > 0 THEN @ + 1 ELSE @]
       ELSE rc' = [rc EXCEPT !.w = "dead",
                             !.res = IF rc.chunk = NoChunk
                                     THEN SlotExc(1, "TypeError", 0) ELSE @]
    /\ UNCHANGED <<regVars, sessVars, ioVars, cfdpVars, rtVars, mt, sdVars, dp, mem, sn>>

\* The engine delivers the next unit, of sz bytes, to the blocked call:
\* bp.py:206 / ltp.py:92 store it, bp.py:228-242 copy it into the buffer
RcEngineDelivers(sz) ==
    /\ rc.w = "blocked"
    /\ rc.nat = 0
    /\ rc.units < MaxUnits
    /\ LET data == UnitBytes(rc.units + 1, sz) IN
         IF rc.chunk = NoChunk
         THEN rc' = [rc EXCEPT !.w = "dead", !.units = @ + 1, !.res = SlotData(1, data)]
         ELSE rc' = [rc EXCEPT !.w = "check", !.units = @ + 1, !.got = @ + sz,
                               !.buf = CopyIntoBuffer(rc.buf, rc.got, data),
                               !.extra = ExtraBytes(rc.extra, rc.got, data, rc.chunk)]
    /\ UNCHANGED <<regVars, sessVars, ioVars, cfdpVars, rtVars, mt, sdVars, dp, mem, sn>>

\* The engine's receive raises in the blocked call: InterruptedError when an
\* interrupt was requested for it, ConnectionAbortedError when it finds the
\* handle closed.  bp.py:252-255 and ltp.py:91-94 store the exception, the
\* chunk loop (bp.py:220) lets it end the thread.
RcEngineRaises(e) ==
    /\ rc.w = "blocked"
    /\ \/ e = "InterruptedError" /\ rc.intr
       \/ e = "ConnectionAbortedError" /\ rc.nat > 0
    /\ rc' = [rc EXCEPT !.w = "dead", !.intr = FALSE,
                        !.res = IF rc.chunk = NoChunk THEN SlotExc(1, e, 0) ELSE @]
    /\ UNCHANGED <<regVars, sessVars, ioVars, cfdpVars, rtVars, mt, sdVars, dp, mem, sn>>

\* bp.py:292-303 / ltp.py:80-86  th.join() has returned: raise or return the slot
RcJoin ==
    /\ rc.app = "join"
    /\ rc.w = "dead"
    /\ rc' = [rc EXCEPT !.app = "done"]
    /\ UNCHANGED <<regVars, sessVars, ioVars, cfdpVars, rtVars, mt, sdVars, dp, mem, sn>>

\* proxies.py:312-316, 344-348  bp_close: self.bp_interrupt(ept) asks the
\* engine to end the call blocked on the handle, if there is one.  cfdp_close
\* and ltp_close have no such step.
RcCloseInterrupt ==
    /\ rc.proto = "bp"
    /\ rc.c = "idle"
    /\ rc' = [rc EXCEPT !.c = "native", !.intr = (rc.w = "blocked")]
    /\ UNCHANGED <<regVars, sessVars, ioVars, cfdpVars, rtVars, mt, sdVars, dp, mem, sn>>

\* proxies.py:319-326 / 570-577  pop the session, `if not is_open: return`,
\* then the native close of its handle
RcCloseNative ==
    /\ rc.c = "native" \/ (rc.proto = "ltp" /\ rc.c = "idle")
    /\ rc' = [rc EXCEPT !.c = "cleanup", !.nat = @ + 1]
    /\ UNCHANGED <<regVars, sessVars, ioVars, cfdpVars, rtVars, mt, sdVars, dp, mem, sn>>

\* proxies.py:329 / 580, bp.py:85-93, ltp.py:55-62  _cleanup
RcCleanup ==
    /\ rc.c = "cleanup"
    /\ rc' = [rc EXCEPT !.c = "done", !.open = FALSE]
    /\ UNCHANGED <<regVars, sessVars, ioVars, cfdpVars, rtVars, mt, sdVars, dp, mem, sn>>

RaceNext ==
    \/ \E proto \in {"bp", "ltp"}, chunk \in ChunkArgs : RcOpen(proto, chunk)
    \/ RcReceive
    \/ RcWorkerCheck
    \/ RcWorkerEnter
    \/ \E sz \in UnitSizes : RcEngineDelivers(sz)
    \/ \E e \in {"InterruptedError", "ConnectionAbortedError"} : RcEngineRaises(e)
    \/ RcJoin
    \/ RcCloseInterrupt
    \/ RcCloseNative
    \/ RcCleanup

-----------------------------------------------------------------------------
(***************************************************************************)
(* bp_send with a custodial retransmission timer.  One Endpoint is opened *)
(* by bp_open with a retx_timer, then bp_send is called on it with a      *)
(* retx_timer argument or without one.  A timer is counted in half        *)
(* seconds, so that 1 is the fractional value 0.5 and int() shows.        *)
(***************************************************************************)

MaxRetxSends == 3      \* bp_send calls made on the Endpoint

InitRetx ==
    sn = [open |-> FALSE, detained |-> FALSE, retx_timer |-> 0,
          tx_result |-> "None", pc |-> "idle", calls |-> 0, arg |-> 0,
          started |-> 0, engine |-> 0, raised |-> "none"]

\* proxies.py:283-293  detained = (retx_timer > 0); the Endpoint keeps
\* int(retx_timer); bp.py:46-74 __init__ sets tx_result = None
SnOpen(retx_timer) ==
    /\ ~sn.open
    /\ sn' = [sn EXCEPT !.open = TRUE,
                        !.detained = (retx_timer > 0),
                        !.retx_timer = 2 * (retx_timer \div 2)]
    /\ UNCHANGED <<regVars, sessVars, ioVars, cfdpVars, rtVars, mt, sdVars, dp, mem, rc>>

SnSendUnchecked(arg) ==
    /\ sn.open /\ sn.pc = "idle"
    /\ sn.calls < MaxRetxSends
    /\ sn' = [sn EXCEPT !.calls = @ + 1,
                        !.arg = IF arg = <<>> THEN sn.retx_timer ELSE arg[1],
                        !.raised = "none", !.pc = "worker", !.started = @ + 1]
    /\ UNCHANGED <<regVars, sessVars, ioVars, cfdpVars, rtVars, mt, sdVars, dp, mem, rc>>

\* bp.py:101-133  bp_send(dest_eid, data, retx_timer=arg): arg is <<>> for
\* None; the default is filled in, the detained check raises, or the
\* worker thread is started
SnSend(arg) ==
    /\ sn.open /\ sn.pc = "idle"
    /\ sn.calls < MaxRetxSends
    /\ LET retx_timer == IF arg = <<>> THEN sn.retx_timer ELSE arg[1]
       IN  IF retx_timer > 0 /\ ~sn.detained
           THEN sn' = [sn EXCEPT !.calls = @ + 1, !.arg = retx_timer,
                                 !.raised = "ConnectionError"]
           ELSE sn' = [sn EXCEPT !.calls = @ + 1, !.arg = retx_timer,
                                 !.raised = "none",
                                 !.pc = "worker", !.started = @ + 1]
    /\ UNCHANGED <<regVars, sessVars, ioVars, cfdpVars, rtVars, mt, sdVars, dp, mem, rc>>

\* bp.py:170-178  _bp_send_bundle: _bp.bp_send returns or raises, and
\* tx_result is None or the exception
SnWorker(ok) ==
    /\ sn.pc = "worker"
    /\ sn' = [sn EXCEPT !.engine = @ + 1,
                        !.tx_result = IF ok THEN "None" ELSE "RuntimeError",
                        !.pc = "join"]
    /\ UNCHANGED <<regVars, sessVars, ioVars, cfdpVars, rtVars, mt, sdVars, dp, mem, rc>>

\* bp.py:135-140  th.join(); raise tx_result if it is an exception
SnJoin ==
    /\ sn.pc = "join"
    /\ sn' = [sn EXCEPT !.pc = "idle",
                        !.raised = IF sn.tx_result = "None" THEN "none"
                                   ELSE sn.tx_result]
    /\ UNCHANGED <<regVars, sessVars, ioVars, cfdpVars, rtVars, mt, sdVars, dp, mem, rc>>

RetxNext ==
    \/ \E retx_timer \in 0..3 : SnOpen(retx_timer)
    \/ \E arg \in {<<>>, <<0>>, <<1>>, <<2>>} : SnSend(arg)
    \/ \E ok \in BOOLEAN : SnWorker(ok)
    \/ SnJoin

-----------------------------------------------------------------------------
(***************************************************************************)
(* Specifications                                                          *)
(***************************************************************************)

Init == InitRegistry /\ InitSession /\ InitIO /\ InitCfdp /\ InitRoundTrip /\ InitMt
        /\ InitShutdown /\ InitDispatch /\ InitMem /\ InitRace /\ InitRetx

SpecRegistry == Init /\ [][RegNext]_vars
SpecRegistrySeq == Init /\ [][RegSeqNext]_vars
SpecSession  == Init /\ [][SessNext]_vars
SpecSessionFail == Init /\ [][SessFailNext]_vars
SpecSessionIntr == Init /\ [][SessIntrNext]_vars
SpecIO       == Init /\ [][IONext]_vars
SpecCfdp     == Init /\ [][CfdpNext]_vars
SpecCfdpTimed == Init /\ [][CfdpTimedNext]_vars
SpecRoundTrip == Init /\ [][RtNext]_vars
SpecMt       == Init /\ [][MtNext]_vars
SpecRetx     == Init /\ [][RetxNext]_vars
SpecShutdown == Init /\ [][SdNext]_vars
SpecScope    == Init /\ [][ScopeNext]_vars
SpecDispatch == Init /\ [][DpNext]_vars
SpecMem      == Init /\ [][MemNext]_vars

\* The receiving thread, its worker and the closing thread keep running, and
\* the engine honors an interrupt that was requested; nothing obliges the
\* engine to deliver data or to end a call on a handle it was told to close.
FairSpecRace ==
    /\ Init /\ [][RaceNext]_vars
    /\ WF_vars(RcWorkerCheck) /\ WF_vars(RcWorkerEnter) /\ WF_vars(RcJoin)
    /\ WF_vars(RcEngineRaises("InterruptedError"))
    /\ WF_vars(RcCloseInterrupt) /\ WF_vars(RcCloseNative) /\ WF_vars(RcCleanup)

\* The monitor thread, the engine and a released waiter keep running; nothing
\* obliges the application to call cfdp_send or wait_for_transaction_end.
FairSpecCfdp ==
    /\ Init /\ [][CfdpNext]_vars
    /\ WF_vars(MonitorStep /\ UNCHANGED <<regVars, sessVars, ioVars, rtVars, moreVars>>)
    /\ WF_vars((\E a \in AppThreads : WaitReturn(a)) /\ UNCHANGED <<regVars, sessVars, ioVars, rtVars, moreVars>>)
    /\ WF_vars((\E t \in TxIds, kind \in {"finished", "abandoned"} :
                   EngineEndsTransaction(t, kind)) /\ UNCHANGED <<regVars, sessVars, ioVars, rtVars, moreVars>>)

SpecEntity == Init /\ [][EntityNext]_vars

\* The monitor thread, the closing thread and released waiters keep running.
FairSpecEntity ==
    /\ Init /\ [][EntityNext]_vars
    /\ WF_vars((MonitorStep \/ MonitorInterrupted) /\ UNCHANGED <<regVars, sessVars, ioVars, rtVars, moreVars>>)
    /\ WF_vars(CloseStep /\ UNCHANGED <<regVars, sessVars, ioVars, rtVars, moreVars>>)
    /\ WF_vars((\E a \in AppThreads : WaitReturn(a)) /\ UNCHANGED <<regVars, sessVars, ioVars, rtVars, moreVars>>)

Next == RegNext \/ SessIntrNext \/ IONext \/ EntityNext \/ RtNext \/ MtNext \/ ScopeNext \/ DpNext \/ MemNext
            \/ RaceNext \/ RetxNext
Spec == Init /\ [][Next]_vars

-----------------------------------------------------------------------------
(***************************************************************************)
(* Properties                                                              *)
(***************************************************************************)

\* The proxies constructed for key k, and the proxies returned for k.
MadeFor(k) == {m \in reg_made : m[2] = k}
ReturnedFor(k) ==
    {reg_ret[t][i][2] : <<t, i>> \in {x \in RegThreads \X (1..MaxLookups) :
                                         /\ x[2] \in DOMAIN reg_ret[x[1]]
                                         /\ reg_ret[x[1]][x[2]][1] = k}}

\* C1: for every key, whatever the interleaving of the threads that look it
\* up, exactly one proxy is constructed for it and every caller receives
\* that same instance.
C1_OneProxyPerKey ==
    \A k \in RegKeys :
        /\ Cardinality(MadeFor(k)) <= 1
        /\ Cardinality(ReturnedFor(k)) <= 1

\* A step that is API call `op` of the lifecycle model.
IsCall(op) == last'.tick # last.tick /\ last'.op = op

\* C2: bp_open of an eid that is in the proxy's map (opened before and not
\* closed since), on an attached proxy, returns the Endpoint object the map
\* holds, makes no engine open, and leaves every Endpoint as it was, whatever
\* the parameters of this second call.
C2_OpenIdempotent ==
    [][\A eid \in Eids :
          (IsCall("open") /\ last'.eid = eid /\ attached /\ ept_map[eid] # NoObj)
          => /\ last'.err = "none"
             /\ last'.ret = ept_map[eid]
             /\ sap_opens' = sap_opens
             /\ epts' = epts
             /\ ept_map' = ept_map]_vars

\* C2 witness: a second bp_open of an open eid, with other parameters than
\* the first, has returned the Endpoint of the first.
C2_Witness ==
    /\ last.op = "open" /\ last.err = "none"
    /\ last.ret \in DOMAIN epts
    /\ ept_map[last.eid] = last.ret
    /\ epts[last.ret].TTL # last.arg

C4_NoStaleOutcome ==
    io_out.how # "none" => io_out.v.by \in {0, io_out.call}

C6_TimedOutOutcome ==
    io_out.via = "timeout"
    => /\ io_out.v.k = "exc"
       /\ io_out.v.e \notin EngineErrors \cup {"InterruptedError"}

\* The first chunk of send call n that the engine refused, 0 if none.
FirstFail(n) ==
    LET F == {eng_tx[i][2] : i \in {j \in DOMAIN eng_tx : eng_tx[j][1] = n /\ ~eng_tx[j][3]}}
    IN  IF F = {} THEN 0 ELSE CHOOSE c \in F : \A d \in F : c <= d

\* C7: once the engine call of a chunk fails, no later chunk of that send is
\* handed to the engine, and the send raises the error of that chunk.
C7_ChunkFailureAborts ==
    \A n \in CallIds :
        FirstFail(n) # 0
        => /\ \A i \in DOMAIN eng_tx : eng_tx[i][1] = n => eng_tx[i][2] <= FirstFail(n)
           /\ io_out.call = n
              => /\ io_out.how = "raise"
                 /\ io_out.v.by = n /\ io_out.v.c = FirstFail(n)

\* C8: a worker whose engine call raised has written an outcome before it
\* ends, and the call that joined it raises that outcome.
C8_FailureCaptured ==
    \A n \in CallIds :
        (wk[n].pc = "dead" /\ wk[n].efail # "")
        => /\ wk[n].wrote
           /\ (io_out.call = n /\ io_out.via = "join")
              => (io_out.how = "raise" /\ io_out.v.by = n)

\* Thread a has returned from wait_for_transaction_end.
Returned(a) == app_pc[a] = "idle" /\ app_ret[a] # <<>>

C12_MonitorEndsOnlyAtClose ==
    mon_pc \in {"exit", "dead"} => ~ent_open

\* C13: no wait_for_transaction_end is admitted on a closed Entity: a thread
\* is, or has been, inside the wait only if the Entity was open when it
\* called.
C13_ClosedEntityIsInert ==
    \A a \in AppThreads : app_sig[a].open

\* C14: whatever the sequence of open, close, close_all and engine failures,
\* every Endpoint the proxy's map holds is open (its handle and proxy are
\* set) and is filed under its own eid: no closed Endpoint is in the map.
C14_MapHoldsOpenSessions ==
    \A eid \in Eids :
        ept_map[eid] # NoObj
        => /\ ept_map[eid] \in DOMAIN epts
           /\ epts[ept_map[eid]].proxy /\ epts[ept_map[eid]].sap # NoSap
           /\ epts[ept_map[eid]].eid = eid

\* C14 witness: the engine failed the close of an Endpoint, which was popped
\* and stays open, and the map holds an Endpoint opened since under its eid.
C14_Witness ==
    /\ last.op = "open" /\ last.err = "none"
    /\ \E o \in DOMAIN epts :
          epts[o].proxy /\ epts[o].eid # NoEid /\ ept_map[epts[o].eid] # o
    /\ \E eid \in Eids : ept_map[eid] # NoObj

\* C15: whenever the proxy is detached, its map is empty and none of its
\* Endpoints is open.
C15_DetachedNoSessions ==
    ~attached
    => /\ \A eid \in Eids : ept_map[eid] = NoObj
       /\ \A o \in DOMAIN epts : ~(epts[o].proxy /\ epts[o].sap # NoSap)

\* C16: bp_close of an Endpoint that is already closed raises nothing, makes
\* no engine call and changes nothing.
C16_ProxyCloseOfClosedNoop ==
    [][\A o \in ObjIds :
          (/\ IsCall("bp_close") /\ last'.obj = o
           /\ ~(epts[o].proxy /\ epts[o].sap # NoSap))
          => /\ last'.err = "none"
             /\ UNCHANGED <<attached, ept_map, epts, sap_opens, sap_closes, sap_intrs>>]_vars

\* C17: bp_open on a proxy that is not attached raises the "not attached"
\* error, makes no engine call and leaves the map and the Endpoints as they
\* were.
C17_OpenDetachedFails ==
    [][(IsCall("open") /\ ~attached)
       => /\ last'.err = "IOError"
          /\ last'.ret = NoObj
          /\ UNCHANGED <<attached, ept_map, epts, sap_opens, sap_closes, sap_intrs>>]_vars

\* C17 witness: a bp_open was refused on a proxy that was attached before,
\* holds an open Endpoint and is detached now.
C17_Witness ==
    /\ last.op = "open" /\ last.err = "IOError"
    /\ ~attached
    /\ \E eid \in Eids : ept_map[eid] # NoObj

\* C18: a bp_receive for which a chunk_size and a timeout are both in
\* effect, as arguments or as the Endpoint's defaults, raises ValueError,
\* starts no worker and makes no engine call.
C18_ChunkAndTimeoutRejected ==
    [][(/\ io_pc = "idle" /\ io_call' = io_call + 1
        /\ io_args'.kind = "recv"
        /\ io_args'.chunk # NoChunk /\ io_args'.tmo # NoTimeout)
       => /\ io_out'.call = io_call' /\ io_out'.how = "raise"
          /\ io_out'.v.e = "ValueError"
          /\ io_pc' = "idle"
          /\ wk' = wk
          /\ UNCHANGED <<eng_rx, eng_tx, eng_intr, rx_result, tx_result>>]_vars

\* The bytes of the units ids, in that order.
RECURSIVE ConcatUnits(_)
ConcatUnits(ids) ==
    IF ids = <<>> THEN <<>>
    ELSE UnitBytes(Head(ids), eng_rx[Head(ids)]) \o ConcatUnits(Tail(ids))

RECURSIVE Flatten(_)
Flatten(ss) == IF ss = <<>> THEN <<>> ELSE Head(ss) \o Flatten(Tail(ss))

\* C20: with an engine that delivers in order and unchanged, the bytes
\* received and still in flight are the bytes sent, in send order (the
\* chunks of a split payload concatenate to it), and as long as every
\* payload sent so far fits in one chunk (chunk_size unset, or the payload no
\* longer than chunk_size, empty ones included), the i-th bp_receive()
\* returns exactly the i-th payload.
C20_RoundTrip ==
    /\ Flatten(rt_recv) \o Flatten(rt_flight) = Flatten([i \in DOMAIN rt_sent |-> rt_sent[i].data])
    /\ \A i \in DOMAIN rt_recv :
          (\A j \in 1..i : /\ j \in DOMAIN rt_sent
                           /\ \/ rt_sent[j].chunk = NoChunk
                              \/ Len(rt_sent[j].data) <= rt_sent[j].chunk)
          => rt_recv[i] = rt_sent[i].data

\* C9: two threads that were blocked in wait_for_transaction_end and were
\* released by the signal of the same "transaction finished" event both
\* return true.
C9_BothWaitersTrue ==
    \A a, b \in AppThreads :
        (/\ a # b /\ Returned(a) /\ Returned(b)
         /\ app_sig[a].blocked /\ app_sig[b].blocked
         /\ app_sig[a].kind = "finished" /\ app_sig[b].kind = "finished"
         /\ app_sig[a].tx = app_sig[b].tx)
        => (app_ret[a] = <<TRUE>> /\ app_ret[b] = <<TRUE>>)

\* C10: a thread that waits for the end of the transaction it started does
\* not wait for ever once the engine has delivered that transaction's
\* finished or abandoned event.
C10_WaitReturns ==
    \A a \in AppThreads :
        (/\ app_pc[a] = "waiting"
         /\ app_tx[a] # NoTx
         /\ cfdp_txs[app_tx[a]] # "active")
        ~> (app_pc[a] # "waiting")

\* C21: when several threads call receive or send on the same Session at once,
\* each call observes only the outcome written by its own worker: what a call
\* returns or raises is the value its own worker stored.
C21_OwnOutcome ==
    \A t \in Callers : \A i \in DOMAIN mt[t].outs : mt[t].outs[i].v.by = t

\* C22: the interrupt handler works through the groups in the fixed order bulk-
\* transfer endpoints, file-transfer entities, access points, memory samplers:
\* its calls are in group order, an entity is cancelled before it is closed, an
\* access point is interrupted before it is closed, and while the handler works
\* on a group no session of an earlier group is still open.
C22_ShutdownOrder ==
    /\ \A i, j \in DOMAIN sd_log : i < j => sd_log[i].g <= sd_log[j].g
    /\ \A j \in DOMAIN sd_log :
          (sd_log[j].op = "close" /\ sd_log[j].g \in {2, 3})
          => \E i \in 1..(j - 1) :
                /\ sd_log[i].g = sd_log[j].g /\ sd_log[i].p = sd_log[j].p
                /\ sd_log[i].op = (IF sd_log[j].g = 2 THEN "cancel" ELSE "interrupt")
    /\ (sd_pc.g > 0 /\ ~sd_pc.raised)
          => \A g \in DOMAIN SdGroups, p \in 1..NumSdProxies :
                g < sd_pc.g => ~sd_px[g][p].open
C22_Witness ==
    /\ sd_pc.g = (Len(SdGroups) + 1) /\ ~sd_pc.raised
    /\ \A g \in 1..4 : \E j \in DOMAIN sd_log : sd_log[j].g = g
    /\ Len(sd_log) >= 6

\* C23: once the interrupt handler has run, no proxy has an open session left
\* and every protocol proxy is detached from the engine.
C23_AllClosedAndDetached ==
    sd_pc.g = (Len(SdGroups) + 1)
    => \A g \in DOMAIN SdGroups, p \in 1..NumSdProxies :
          ~sd_px[g][p].open /\ ~sd_px[g][p].attached

\* C24: a Session used as a scoped resource is closed on every exit path from
\* the scope, error exits included: once the scope of an Endpoint, Entity or
\* AccessPoint has been left, that session is not open.
C24_ScopeExitCloses ==
    \A g \in 1..3, p \in 1..NumSdProxies :
        sd_px[g][p].scope \in {"out", "out_err"} => ~sd_px[g][p].open

\* C25: for every fetched event other than "no event" the monitor calls the
\* handler registered for that exact kind, if any, and independently the
\* handler registered for all events, if any; a missing handler is no error,
\* a "no event" result calls no handler, and the loop continues.
C25_DispatchExactAndAll ==
    [][Len(dp'.evts) = Len(dp.evts) + 1
       => LET evt == dp'.evts[Len(dp'.evts)]
              new == SubSeq(dp'.calls, Len(dp.calls) + 1, Len(dp'.calls))
          IN  /\ evt = "none" => dp'.alive
              /\ new = (IF evt # "none" /\ dp.eh[evt] # "unset"
                        THEN <<[h |-> evt, evt |-> evt]>> ELSE <<>>)
                       \o (IF evt # "none" /\ dp.eh["all"] # "unset"
                           THEN <<[h |-> "all", evt |-> evt]>> ELSE <<>>)]_vars

\* C26: start_monitoring on a memory proxy that is already monitoring fails
\* with a usage error and starts no sampler, and whatever start_monitoring,
\* stop_monitoring and close calls were made, at most one sampler thread of
\* the proxy is alive.
C26_OneSampler ==
    /\ [](Cardinality({i \in DOMAIN mem.ths : mem.ths[i].alive}) <= 1)
    /\ [][(mem'.calls = mem.calls + 1 /\ mem'.last.op = "start" /\ mem.monitor_on)
            => (mem'.last.err = "ValueError" /\ mem'.ths = mem.ths)]_vars
C26_Witness ==
    /\ mem.last.op = "start" /\ mem.last.err = "ValueError"
    /\ Len(mem.ths) = 1 /\ mem.ths[1].alive /\ mem.iters > 0

\* C27: in a sampler iteration with window > 0 in which the time since the
\* last flush is at least the window, the accumulated results are cleared and
\* the baseline reset before the new sample is taken, so that the new sample
\* is recorded in the fresh window; in any other iteration (window <= 0
\* included) nothing is cleared, and the new sample is always recorded.
C27_FlushThenSample ==
    [][mem'.iters = mem.iters + 1
       => \E i \in DOMAIN mem.ths :
            /\ mem.ths[i].alive
            /\ \E r \in mem'.results : r.t = mem.now
            /\ IF mem.tspan > 0 /\ mem.now - mem.ths[i].tic >= mem.tspan
               THEN /\ \A r \in mem'.results : r.t = mem.now
                    /\ mem'.ths[i].tic = mem.now
               ELSE /\ mem.results \subseteq mem'.results
                    /\ mem'.ths[i].tic = mem.ths[i].tic]_vars
C27_Witness ==
    /\ Len(mem.ths) = 1 /\ mem.ths[1].alive /\ mem.tspan = MaxTspan
    /\ mem.ths[1].tic > 0
    /\ mem.iters >= 3
    /\ Cardinality(mem.results) = 1

\* C28: when the engine's dump call fails in a sampler iteration, the error
\* is recorded as the sample for that timestamp in every series (summary,
\* small pool and large pool) and the loop goes on with the next iteration.
C28_ErrorInEverySeries ==
    [][(mem'.iters = mem.iters + 1 /\ mem'.dump = "raised")
       => /\ [t |-> mem.now, summary |-> "error", small |-> "error", large |-> "error"]
                \in mem'.results
          /\ \A i \in DOMAIN mem.ths : mem'.ths[i].alive = mem.ths[i].alive]_vars

\* C28 as amended: the error is recorded as the summary sample for that
\* timestamp, None as the small pool and large pool samples, and the loop
\* goes on with the next iteration.
C28_ErrorInSummary ==
    [][(mem'.iters = mem.iters + 1 /\ mem'.dump = "raised")
       => /\ [t |-> mem.now, summary |-> "error", small |-> "None", large |-> "None"]
                \in mem'.results
          /\ \A i \in DOMAIN mem.ths : mem'.ths[i].alive = mem.ths[i].alive]_vars
C28_Witness ==
    /\ mem.monitor_on
    /\ \E r, q \in mem.results :
          /\ r.summary = "error" /\ r.small = "None"
          /\ q.summary = "data" /\ q.t > r.t

\* C29: interrupt on a session that is not open in this Proxy fails with the
\* "not open" connection error and makes no engine call; interrupt on an open
\* session signals the engine and changes nothing else: the session stays
\* open and stays in the sessions map.
C29_InterruptOpenOnly ==
    [][(last'.op = "bp_interrupt" /\ last'.tick # last.tick)
       => LET o == last'.obj
              openHere == /\ EndpointIsOpen(epts[o])
                          /\ epts[o].eid # NoEid
                          /\ ept_map[epts[o].eid] = o
          IN  /\ attached' = attached /\ ept_map' = ept_map /\ epts' = epts
              /\ sap_opens' = sap_opens /\ sap_closes' = sap_closes
              /\ IF openHere
                 THEN /\ last'.err = "none"
                      /\ sap_intrs' = [sap_intrs EXCEPT ![epts[o].sap] = @ + 1]
                 ELSE /\ last'.err = "ConnectionError"
                      /\ sap_intrs' = sap_intrs]_vars

\* C30: with the lookups made one after another, a lookup for key k returns
\* the proxy registered for k if there is one and otherwise constructs one,
\* registers it under k and returns it: every key has at most one proxy ever
\* constructed, every lookup of the key returned the registered one, and a key
\* that was never looked up has no proxy.
C30_SequentialLookup ==
    \A k \in RegKeys :
        /\ Cardinality(MadeFor(k)) <= 1
        /\ ReturnedFor(k) \subseteq {proxy_map[k]}
        /\ RegKeyPresent(k) => /\ proxy_map[k] \in ReturnedFor(k)
                              /\ MadeFor(k) = {<<proxy_map[k], k>>}
        /\ (\E t \in RegThreads : reg_pc[t] = "idle" /\ reg_ret[t] # <<>>
                                    /\ reg_ret[t][Len(reg_ret[t])][1] = k)
           => RegKeyPresent(k)
C30_Witness ==
    \E k, j \in RegKeys :
        /\ \A t \in RegThreads : \E i \in DOMAIN reg_ret[t] : reg_ret[t][i][1] = k
        /\ Cardinality(MadeFor(k)) = 1
        /\ ~RegKeyPresent(j) /\ MadeFor(j) = {}

\* C31: a Proxy close of an open session asks the engine to interrupt the
\* blocking call in flight on the session before it makes the native close:
\* the native close of cfdp_close never runs while the Entity's event fetch is
\* blocked in the engine with no interrupt requested.
C31_InterruptBeforeNativeClose ==
    [][(close_pc = "idle" /\ close_pc' = "interrupt")
          => (mon_pc = "fetch" => mon_intr)]_vars

\* C32: bp_close removes the session's entry from the map unconditionally:
\* after bp_close of an Endpoint whose eid the attached proxy holds, the eid is
\* no longer in the map, also when an engine call made during the close (the
\* interrupt or the native close) failed.
C32_CloseAlwaysPops ==
    [][(IsCall("bp_close") /\ attached /\ is_endpoint_open(last'.eid))
          => ept_map'[last'.eid] = NoObj]_vars

\* C33: bp_close_all closes every Endpoint the map held when it started: when
\* it returns, the map is empty, every Endpoint of that snapshot is closed,
\* was interrupted and has had exactly one native close of its handle, and
\* the Endpoints outside the snapshot are as they were.
C33_CloseAllClosesSnapshot ==
    [][(IsCall("close_all") /\ last'.err = "none")
          => /\ \A eid \in Eids : ept_map'[eid] = NoObj
             /\ last'.arg = Cardinality(open_endpoints)
             /\ \A x \in open_endpoints :
                   /\ ~EndpointIsOpen(epts'[x])
                   /\ sap_closes'[epts[x].sap] = 1
                   /\ sap_intrs'[epts[x].sap] = sap_intrs[epts[x].sap] + 1
             /\ \A x \in DOMAIN epts \ open_endpoints :
                   /\ epts'[x] = epts[x]
                   /\ epts[x].sap # NoSap
                      => sap_closes'[epts[x].sap] = sap_closes[epts[x].sap]]_vars

\* C33 witness: bp_close_all has returned after closing two Endpoints that
\* were open together.
C33_Witness ==
    /\ last.op = "close_all" /\ last.err = "none" /\ last.arg = 2
    /\ \A eid \in Eids : ept_map[eid] = NoObj
    /\ Cardinality({o \in DOMAIN epts : ~EndpointIsOpen(epts[o]) /\ sap_closes[o] = 1}) = 2

\* C34: whatever the interleaving of a receive and its worker with a close of
\* the Endpoint, the wrapper never hands the Endpoint's handle to the engine
\* after the native close of that handle was invoked, and the native close is
\* invoked at most once.
C34_NoUseAfterNativeClose ==
    rc.proto = "bp" => (rc.late = 0 /\ rc.nat <= 1)

C38_NoFillerBytes ==
    (rc.app = "done" /\ rc.chunk # NoChunk /\ rc.res.k = "data")
    => \A k \in DOMAIN rc.res.u : rc.res.u[k] # ZeroByte

\* C36: a wait_for_transaction_end(timeout=T) whose timeout expires with no
\* completion signalled while it waited (and none being signalled at that
\* moment) returns false, whatever the outcome of earlier transactions.
C36_TimedOutWaitReturnsFalse ==
    [][\A a \in AppThreads :
          (app_pc[a] = "waiting" /\ app_sig'[a].kind = "timeout" /\ mon_pc # "set")
          => app_ret'[a] = <<FALSE>>]_vars

\* C37: a wait_for_transaction_end() without timeout on a closed Entity does
\* not block for ever: a thread that is waiting once cfdp_close has returned
\* (it began its wait after the close, or as the close was ending) is
\* eventually released.
C37_WaitOnClosedReturns ==
    \A a \in AppThreads :
        (app_pc[a] = "waiting" /\ close_pc = "done") ~> (app_pc[a] # "waiting")

\* C39: a closed Endpoint keeps no handle and never changes again (it does
\* not become open), no two Endpoint objects hold the same handle, and
\* bp_open of an eid the map does not hold (never opened, or closed since)
\* builds a new Endpoint object around the handle of a new engine open, a
\* handle no native close was ever made for.
C39_HandleNeverReused ==
    /\ [](\A o \in DOMAIN epts : ~epts[o].proxy => epts[o].sap = NoSap)
    /\ [](\A o, x \in DOMAIN epts :
             (o # x /\ epts[o].sap # NoSap) => epts[o].sap # epts[x].sap)
    /\ [][\A o \in DOMAIN epts :
             ~EndpointIsOpen(epts[o]) => epts'[o] = epts[o]]_vars
    /\ [][(IsCall("open") /\ last'.err = "none" /\ ~is_endpoint_open(last'.eid))
             => /\ last'.ret \notin DOMAIN epts
                /\ last'.ret \in DOMAIN epts'
                /\ EndpointIsOpen(epts'[last'.ret])
                /\ ept_map'[last'.eid] = last'.ret
                /\ sap_opens'[last'.eid] = sap_opens[last'.eid] + 1
                /\ sap_closes'[epts'[last'.ret].sap] = 0]_vars

\* C39 witness: an eid was opened, closed and opened again: the map holds the
\* second Endpoint object, the first one is closed.
C39_Witness ==
    \E eid \in Eids :
        /\ last.op = "open" /\ last.eid = eid /\ last.err = "none"
        /\ sap_opens[eid] = 2
        /\ ept_map[eid] = 2
        /\ ~EndpointIsOpen(epts[1]) /\ sap_closes[1] = 1


\* C40: a bp_send whose retransmission timer, given as argument or taken
\* from the Endpoint's default, is greater than zero, on an Endpoint that
\* was not opened detained, raises ConnectionError ("This endpoint is not
\* detained"), starts no worker, makes no engine call and leaves tx_result
\* as it was.
C40_RetxOnUndetainedFailsFast ==
    [][(/\ sn.pc = "idle" /\ sn'.calls = sn.calls + 1
        /\ sn'.arg > 0 /\ ~sn.detained)
       => /\ sn'.raised = "ConnectionError"
          /\ sn'.pc = "idle"
          /\ sn'.started = sn.started
          /\ sn'.engine = sn.engine
          /\ sn'.tx_result = sn.tx_result]_vars

\* The rejected send came after a send whose engine call failed: the
\* exception of that earlier send is still in tx_result.
C40_Witness ==
    /\ sn.open /\ ~sn.detained
    /\ sn.arg > 0 /\ sn.raised = "ConnectionError"
    /\ sn.pc = "idle"
    /\ sn.started = 1 /\ sn.engine = 1
    /\ sn.tx_result = "RuntimeError"

=========================================================================
